---- MODULE Spec2Model ----
(***************************************************************************)
(* Model of package dvd (src/dvd/parser.go): the decoded DVD value and the *)
(* query methods defined on it.                                            *)
(*                                                                         *)
(* Representation.                                                         *)
(*  - A *Track is the 1-based position of the track in d.Tracks, a         *)
(*    *Chapter the 1-based position of the chapter in its track's          *)
(*    Chapters; Nil (0) is the nil pointer.  An index expression outside   *)
(*    the slice is a run-time panic, the value Panic.                      *)
(*  - float64 lengths and minutes are whole numbers.  The result of each   *)
(*    float64 operation is rounded to the nearest value of MantissaBits    *)
(*    significant bits, ties to even: the 53 bits of a float64 scaled down *)
(*    to the range of the integers of the model checker.  Below            *)
(*    2^MantissaBits every whole number is exact.                          *)
(*  - The records keep the Index, Length and Language fields and the       *)
(*    slices; no query method reads any other field.                       *)
(***************************************************************************)
EXTENDS Integers, Sequences, FiniteSets, TLC

VARIABLES dvd, call, ret, panicked

vars == <<dvd, call, ret, panicked>>

----------------------------------------------------------------------------
(* Bounds of the model *)

MaxTracks == 2
MaxChapters == 2
MaxStreams == 1

(* track and chapter lengths, in seconds *)
Lengths == {2100, 2700}
(* arguments of FindContentAroundDuration, in minutes *)
Targets == {40, 45}
Tolerances == {0, 5}
(* values of the ix tag of a track, and arguments of GetTrackByIndex *)
IndexValues == {1, 2, 5}
IndexArgs == {1, 2, 3, 5}
(* values of the language tag of a stream *)
Languages == {"", "en", "EN"}

----------------------------------------------------------------------------
(* Pointers *)

Nil == 0
Panic == -1

(* &s[k] for a 0-based k: the element's position, or a panic *)
AddrOf(s, k) == IF k >= 0 /\ k < Len(s) THEN k + 1 ELSE Panic

----------------------------------------------------------------------------
(* The decoded model *)

Chapter(ix, length) == [Index |-> ix, Length |-> length]

AudioStream(ix, language) == [Index |-> ix, Language |-> language]

SubtitleStream(ix, language) == [Index |-> ix, Language |-> language]

Track(ix, length, audio, subp, chapters) ==
    [Index |-> ix, Length |-> length, AudioStreams |-> audio,
     SubtitleStreams |-> subp, Chapters |-> chapters]

DVD(tracks, longest) == [Tracks |-> tracks, LongestTrack |-> longest]

(* chapters and streams numbered in document order *)
Chapters(lengths) == [j \in DOMAIN lengths |-> Chapter(j, lengths[j])]

AudioStreams(languages) == [j \in DOMAIN languages |-> AudioStream(j, languages[j])]

SubtitleStreams(languages) == [j \in DOMAIN languages |-> SubtitleStream(j, languages[j])]

(* sequences of at most n elements of S *)
SeqUpTo(S, n) == UNION {[1..m -> S] : m \in 0..n}

(* a disc whose tracks carry chapters: lengths of tracks and chapters vary *)
MatchDisc(ts) ==
    DVD([i \in DOMAIN ts |-> Track(i, ts[i][1], <<>>, <<>>, Chapters(ts[i][2]))],
        Len(ts))

(* a disc whose audio streams vary, beside one French subtitle stream *)
AudioDisc(ts) ==
    DVD([i \in DOMAIN ts |->
            Track(i, 2700, AudioStreams(ts[i]), SubtitleStreams(<<"fr">>), <<>>)],
        Len(ts))

(* a disc whose subtitle streams vary, beside one German audio stream *)
SubtitleDisc(ts) ==
    DVD([i \in DOMAIN ts |->
            Track(i, 2700, AudioStreams(<<"de">>), SubtitleStreams(ts[i]), <<>>)],
        Len(ts))

(* a disc of one track of forty minutes, with one chapter as long *)
FortyMinuteDisc == DVD(<<Track(1, 2400, <<>>, <<>>, Chapters(<<2400>>))>>, 1)

(* a disc whose ix values and declared longest track are arbitrary *)
IndexDisc(ts, longest) ==
    DVD([i \in DOMAIN ts |-> Track(ts[i][1], ts[i][2], <<>>, <<>>, <<>>)], longest)

(* the decoded disc is one of the discs above *)
Decoded(d) ==
    \/ \E n \in 0..MaxTracks :
        \/ \E ts \in [1..n -> Lengths \X SeqUpTo(Lengths, MaxChapters)] :
                d = MatchDisc(ts)
        \/ \E ts \in [1..n -> SeqUpTo(Languages, MaxStreams)] :
                d = AudioDisc(ts)
        \/ \E ts \in [1..n -> SeqUpTo(Languages, MaxStreams)] :
                d = SubtitleDisc(ts)
    \/ \E n \in 0..MaxTracks :
        \E ts \in [1..n -> IndexValues \X Lengths], longest \in -1..(MaxTracks + 1) :
                d = IndexDisc(ts, longest)
    \/ d = FortyMinuteDisc

----------------------------------------------------------------------------
(* Query methods *)

(* the declared index used as a 0-based offset *)
GetLongestTrackNoConvert(d) ==
    IF d.LongestTrack > 0 /\ d.LongestTrack <= Len(d.Tracks)
    THEN AddrOf(d.Tracks, d.LongestTrack)
    ELSE Nil

(* the guard excludes the last position *)
GetLongestTrackStrictGuard(d) ==
    IF d.LongestTrack > 0 /\ d.LongestTrack < Len(d.Tracks)
    THEN AddrOf(d.Tracks, d.LongestTrack - 1)
    ELSE Nil

GetLongestTrack(d) ==
    IF d.LongestTrack > 0 /\ d.LongestTrack <= Len(d.Tracks)
    THEN AddrOf(d.Tracks, d.LongestTrack - 1)
    ELSE Nil

RECURSIVE TrackSearch(_, _, _)
TrackSearch(d, i, index) ==
    IF i > Len(d.Tracks) THEN Nil
    ELSE IF d.Tracks[i].Index = index THEN AddrOf(d.Tracks, i - 1)
    ELSE TrackSearch(d, i + 1, index)

(* the argument used as the 1-based position *)
GetTrackByIndexPositional(d, index) ==
    IF index > 0 /\ index <= Len(d.Tracks)
    THEN AddrOf(d.Tracks, index - 1)
    ELSE Nil

GetTrackByIndex(d, index) == TrackSearch(d, 1, index)

(* total += track.Length over the tracks from position i on *)
RECURSIVE TotalFrom(_, _, _)
TotalFrom(d, i, total) ==
    IF i > Len(d.Tracks) THEN total
    ELSE TotalFrom(d, i + 1, total + d.Tracks[i].Length)

(* a track with chapters counted by the lengths of its chapters *)
RECURSIVE ChapterTotalFrom(_, _, _)
ChapterTotalFrom(chapters, j, total) ==
    IF j > Len(chapters) THEN total
    ELSE ChapterTotalFrom(chapters, j + 1, total + chapters[j].Length)

RECURSIVE ReconciledTotalFrom(_, _, _)
ReconciledTotalFrom(d, i, total) ==
    IF i > Len(d.Tracks) THEN total
    ELSE ReconciledTotalFrom(d, i + 1,
            IF d.Tracks[i].Chapters # <<>>
            THEN ChapterTotalFrom(d.Tracks[i].Chapters, 1, total)
            ELSE total + d.Tracks[i].Length)

GetTotalDurationReconciled(d) == ReconciledTotalFrom(d, 1, 0)

GetTotalDuration(d) == TotalFrom(d, 1, 0)

(* the empty language collected like any other *)
RECURSIVE StreamLanguagesWithEmpty(_, _, _)
StreamLanguagesWithEmpty(streams, j, languageMap) ==
    IF j > Len(streams) THEN languageMap
    ELSE StreamLanguagesWithEmpty(streams, j + 1,
            languageMap \cup {streams[j].Language})

(* languageMap after the inner loop over one track's streams *)
RECURSIVE StreamLanguages(_, _, _)
StreamLanguages(streams, j, languageMap) ==
    IF j > Len(streams) THEN languageMap
    ELSE StreamLanguages(streams, j + 1,
            IF streams[j].Language # ""
            THEN languageMap \cup {streams[j].Language}
            ELSE languageMap)

RECURSIVE AudioLanguageMap(_, _, _)
AudioLanguageMap(d, i, languageMap) ==
    IF i > Len(d.Tracks) THEN languageMap
    ELSE AudioLanguageMap(d, i + 1,
            StreamLanguages(d.Tracks[i].AudioStreams, 1, languageMap))

RECURSIVE SubtitleLanguageMap(_, _, _)
SubtitleLanguageMap(d, i, languageMap) ==
    IF i > Len(d.Tracks) THEN languageMap
    ELSE SubtitleLanguageMap(d, i + 1,
            StreamLanguages(d.Tracks[i].SubtitleStreams, 1, languageMap))

(* the slices a range over the map can build: every order of its keys *)
KeyOrders(languageMap) ==
    {s \in [1..Cardinality(languageMap) -> languageMap] :
        \A a, b \in DOMAIN s : a # b => s[a] # s[b]}

GetAudioLanguages(d) == KeyOrders(AudioLanguageMap(d, 1, {}))

GetSubtitleLanguages(d) == KeyOrders(SubtitleLanguageMap(d, 1, {}))

(* float64 arithmetic.  A whole number of more than MantissaBits bits is *)
(* rounded to the nearest multiple of the weight of its last bit.        *)
MantissaBits == 12

RECURSIVE Pow2(_)
Pow2(n) == IF n = 0 THEN 1 ELSE 2 * Pow2(n - 1)

Abs(x) == IF x < 0 THEN 0 - x ELSE x

(* the whole numbers below it are all values of the type *)
Exact == Pow2(MantissaBits)

(* the weight of the last of the MantissaBits bits of x *)
RECURSIVE UlpFrom(_, _)
UlpFrom(x, ulp) == IF Abs(x) < ulp * Exact THEN ulp ELSE UlpFrom(x, 2 * ulp)

Ulp(x) == UlpFrom(x, 1)

(* round to nearest, ties to even *)
Float64(x) ==
    LET u == Ulp(x)
        down == (Abs(x) \div u) * u
        rest == Abs(x) % u
        near == IF 2 * rest < u THEN down
                ELSE IF 2 * rest > u THEN down + u
                ELSE IF (down \div u) % 2 = 0 THEN down ELSE down + u
    IN  IF Abs(x) < Exact THEN x
        ELSE IF x < 0 THEN 0 - near ELSE near

ContentMatch(type, track, chapter, duration) ==
    [Type |-> type, Track |-> track, Chapter |-> chapter, Duration |-> duration]

(* the upper end of the window excluded *)
TrackInWindowHalfOpen(length, targetSeconds, toleranceSeconds) ==
    /\ length >= Float64(targetSeconds - toleranceSeconds)
    /\ length < Float64(targetSeconds + toleranceSeconds)

TrackInWindow(length, targetSeconds, toleranceSeconds) ==
    /\ length >= Float64(targetSeconds - toleranceSeconds)
    /\ length <= Float64(targetSeconds + toleranceSeconds)

ChapterInWindow(length, targetSeconds, toleranceSeconds) ==
    /\ length >= Float64(targetSeconds - toleranceSeconds)
    /\ length <= Float64(targetSeconds + toleranceSeconds)

(* the chapter match carrying the duration of the track *)
ChapterStepTrackDuration(d, track, j, targetSeconds, toleranceSeconds, matches) ==
    LET chapter == AddrOf(d.Tracks[track].Chapters, j - 1)
    IN  IF ChapterInWindow(d.Tracks[track].Chapters[chapter].Length,
                           targetSeconds, toleranceSeconds)
        THEN Append(matches,
                ContentMatch("chapter", track, chapter, d.Tracks[track].Length))
        ELSE matches

(* the chapter match put in front of the matches found so far *)
ChapterStepPrepend(d, track, j, targetSeconds, toleranceSeconds, matches) ==
    LET chapter == AddrOf(d.Tracks[track].Chapters, j - 1)
    IN  IF ChapterInWindow(d.Tracks[track].Chapters[chapter].Length,
                           targetSeconds, toleranceSeconds)
        THEN <<ContentMatch("chapter", track, chapter,
                            d.Tracks[track].Chapters[chapter].Length)>> \o matches
        ELSE matches

(* body of the loop over track.Chapters, for the chapter at position j *)
ChapterStep(d, track, j, targetSeconds, toleranceSeconds, matches) ==
    LET chapter == AddrOf(d.Tracks[track].Chapters, j - 1)
    IN  IF ChapterInWindow(d.Tracks[track].Chapters[chapter].Length,
                           targetSeconds, toleranceSeconds)
        THEN Append(matches,
                ContentMatch("chapter", track, chapter,
                             d.Tracks[track].Chapters[chapter].Length))
        ELSE matches

RECURSIVE ChapterLoop(_, _, _, _, _, _)
ChapterLoop(d, track, j, targetSeconds, toleranceSeconds, matches) ==
    IF j > Len(d.Tracks[track].Chapters) THEN matches
    ELSE ChapterLoop(d, track, j + 1, targetSeconds, toleranceSeconds,
            ChapterStep(d, track, j, targetSeconds, toleranceSeconds, matches))

(* the chapters of a matching track scanned as well: no continue *)
TrackStepNoContinue(d, i, targetSeconds, toleranceSeconds, matches) ==
    LET track == AddrOf(d.Tracks, i - 1)
    IN  ChapterLoop(d, track, 1, targetSeconds, toleranceSeconds,
            IF TrackInWindow(d.Tracks[track].Length, targetSeconds, toleranceSeconds)
            THEN Append(matches,
                    ContentMatch("track", track, Nil, d.Tracks[track].Length))
            ELSE matches)

(* body of the loop over d.Tracks, for the track at position i *)
TrackStep(d, i, targetSeconds, toleranceSeconds, matches) ==
    LET track == AddrOf(d.Tracks, i - 1)
    IN  IF TrackInWindow(d.Tracks[track].Length, targetSeconds, toleranceSeconds)
        THEN Append(matches,
                ContentMatch("track", track, Nil, d.Tracks[track].Length))
        ELSE ChapterLoop(d, track, 1, targetSeconds, toleranceSeconds, matches)

RECURSIVE TrackLoop(_, _, _, _, _)
TrackLoop(d, i, targetSeconds, toleranceSeconds, matches) ==
    IF i > Len(d.Tracks) THEN matches
    ELSE TrackLoop(d, i + 1, targetSeconds, toleranceSeconds,
            TrackStep(d, i, targetSeconds, toleranceSeconds, matches))

FindContentAroundDuration(d, targetMinutes, toleranceMinutes) ==
    LET targetSeconds == Float64(targetMinutes * 60)
        toleranceSeconds == Float64(toleranceMinutes * 60)
    IN  TrackLoop(d, 1, targetSeconds, toleranceSeconds, <<>>)

(* the window narrowed to the target itself *)
FindFortyMinuteContentExact(d) == FindContentAroundDuration(d, 40, 0)

FindFortyMinuteContent(d) == FindContentAroundDuration(d, 40, 5)

----------------------------------------------------------------------------
(* One call of a query method on the decoded disc.  call records the method *)
(* and its arguments, ret what it returned, panicked whether it ended in a  *)
(* run-time panic.                                                          *)

Init ==
    /\ Decoded(dvd)
    /\ call = [op |-> "none"]
    /\ ret = Nil
    /\ panicked = FALSE

(* an out-of-range declared index reset on the receiver *)
DoGetLongestTrackRepairing ==
    /\ call' = [op |-> "GetLongestTrack"]
    /\ ret' = GetLongestTrack(dvd)
    /\ panicked' = (GetLongestTrack(dvd) = Panic)
    /\ dvd' = IF GetLongestTrack(dvd) = Nil
              THEN [dvd EXCEPT !.LongestTrack = 0]
              ELSE dvd

DoGetLongestTrack ==
    /\ call' = [op |-> "GetLongestTrack"]
    /\ ret' = GetLongestTrack(dvd)
    /\ panicked' = (GetLongestTrack(dvd) = Panic)
    /\ UNCHANGED dvd

DoGetTrackByIndex ==
    \E index \in IndexArgs :
        /\ call' = [op |-> "GetTrackByIndex", index |-> index]
        /\ ret' = GetTrackByIndex(dvd, index)
        /\ panicked' = (GetTrackByIndex(dvd, index) = Panic)
        /\ UNCHANGED dvd

DoGetTotalDuration ==
    /\ call' = [op |-> "GetTotalDuration"]
    /\ ret' = GetTotalDuration(dvd)
    /\ panicked' = FALSE
    /\ UNCHANGED dvd

DoGetAudioLanguages ==
    \E languages \in GetAudioLanguages(dvd) :
        /\ call' = [op |-> "GetAudioLanguages"]
        /\ ret' = languages
        /\ panicked' = FALSE
        /\ UNCHANGED dvd

DoGetSubtitleLanguages ==
    \E languages \in GetSubtitleLanguages(dvd) :
        /\ call' = [op |-> "GetSubtitleLanguages"]
        /\ ret' = languages
        /\ panicked' = FALSE
        /\ UNCHANGED dvd

DoFindContentAroundDuration ==
    \E targetMinutes \in Targets, toleranceMinutes \in Tolerances :
        /\ call' = [op |-> "FindContentAroundDuration",
                    targetMinutes |-> targetMinutes,
                    toleranceMinutes |-> toleranceMinutes]
        /\ ret' = FindContentAroundDuration(dvd, targetMinutes, toleranceMinutes)
        /\ panicked' = FALSE
        /\ UNCHANGED dvd

DoFindFortyMinuteContent ==
    /\ call' = [op |-> "FindFortyMinuteContent"]
    /\ ret' = FindFortyMinuteContent(dvd)
    /\ panicked' = FALSE
    /\ UNCHANGED dvd

Next ==
    \/ DoGetLongestTrack
    \/ DoGetTrackByIndex
    \/ DoGetTotalDuration
    \/ DoGetAudioLanguages
    \/ DoGetSubtitleLanguages
    \/ DoFindContentAroundDuration
    \/ DoFindFortyMinuteContent

Spec == Init /\ [][Next]_vars

----------------------------------------------------------------------------
(* FindContentAroundDuration over a wider range of arguments: a tolerance *)
(* below zero, a target whose seconds have more than MantissaBits bits.   *)

WideLengths == {2400, 2700, 300032}
WideTargets == {40, 45, 5000}
WideTolerances == {-5, -1, 0, 5}

(* a disc whose tracks have at most one chapter *)
InitWindow ==
    /\ \E n \in 0..MaxTracks :
        \E ts \in [1..n -> WideLengths \X SeqUpTo(WideLengths, 1)] :
            dvd = MatchDisc(ts)
    /\ call = [op |-> "none"]
    /\ ret = Nil
    /\ panicked = FALSE

DoFindContentAroundDurationWide ==
    \E targetMinutes \in WideTargets, toleranceMinutes \in WideTolerances :
        /\ call' = [op |-> "FindContentAroundDuration",
                    targetMinutes |-> targetMinutes,
                    toleranceMinutes |-> toleranceMinutes]
        /\ ret' = FindContentAroundDuration(dvd, targetMinutes, toleranceMinutes)
        /\ panicked' = FALSE
        /\ UNCHANGED dvd

SpecWindow == InitWindow /\ [][DoFindContentAroundDurationWide]_vars

----------------------------------------------------------------------------
(* The decoder: ParseFile, ParseBytes and the struct tags of lines 12-82.  *)
(*                                                                         *)
(* Representation.                                                         *)
(*  - A byte sequence is a sequence of symbols.  A symbol is one character *)
(*    of text <<"c", ch>>, a whole start tag <<"s", name>> or a whole end  *)
(*    tag <<"e", name>>: neither repair pattern contains '<' or '>', so a   *)
(*    tag is never part of an occurrence.                                  *)
(*  - A Go string is a TLA+ string; an error or a *DVD is a sequence, the  *)
(*    empty sequence being nil.  An error is the sequence of the parts of  *)
(*    its message.                                                         *)
(*  - xml.Unmarshal is modelled by its documented behaviour on the tokens  *)
(*    the model draws: elements and character data with the predefined     *)
(*    entities, strict mode.  Attributes, comments, CDATA sections and     *)
(*    numeric character references are not drawn.                          *)
(***************************************************************************)

Char(ch) == <<"c", ch>>
StartTag(name) == <<"s", name>>
EndTag(name) == <<"e", name>>

(* the delimiters <![CDATA[ and ]]> of a CDATA section *)
CDataStart == <<"[", "CDATA">>
CDataEnd == <<"]", "CDATA">>

(* the bytes of a text without markup, given as its characters *)
Text(chars) == [k \in DOMAIN chars |-> Char(chars[k])]

(* the Go string made of the characters chars *)
RECURSIVE Str(_)
Str(chars) ==
    IF chars = <<>> THEN ""
    ELSE IF Len(chars) = 1 THEN chars[1]
    ELSE LET half == Len(chars) \div 2
         IN  Str(SubSeq(chars, 1, half)) \o Str(SubSeq(chars, half + 1, Len(chars)))

PanScanText == <<"P", "a", "n", "&", "S", "c", "a", "n">>
LetterboxText == <<"&", "L", "e", "t", "t", "e", "r", "b", "o", "x">>
PanScan == Text(PanScanText)
PanAmpScan == Text(<<"P", "a", "n", "&", "a", "m", "p", ";", "S", "c", "a", "n">>)
Letterbox == Text(LetterboxText)
AmpLetterbox ==
    Text(<<"&", "a", "m", "p", ";", "L", "e", "t", "t", "e", "r", "b", "o", "x">>)

(* old occurs in s at position i *)
HasPrefixAt(s, i, old) ==
    /\ i + Len(old) - 1 <= Len(s)
    /\ SubSeq(s, i, i + Len(old) - 1) = old

(* only the first occurrence replaced *)
RECURSIVE ReplaceFirstFrom(_, _, _, _, _)
ReplaceFirstFrom(s, i, old, new, out) ==
    LET found == {j \in i..Len(s) : HasPrefixAt(s, j, old)}
    IN  IF found = {} THEN out \o SubSeq(s, i, Len(s))
        ELSE LET j == CHOOSE j \in found : \A k \in found : j <= k
             IN  out \o SubSeq(s, i, j - 1) \o new \o SubSeq(s, j + Len(old), Len(s))

ReplaceFirst(s, old, new) == ReplaceFirstFrom(s, 1, old, new, <<>>)

(* bytes.ReplaceAll for a non-empty old: the non-overlapping occurrences, *)
(* found from left to right, each replaced by new; i is where the search  *)
(* for the next occurrence starts, out what is written so far             *)
RECURSIVE ReplaceAllFrom(_, _, _, _, _)
ReplaceAllFrom(s, i, old, new, out) ==
    LET found == {j \in i..Len(s) : HasPrefixAt(s, j, old)}
    IN  IF found = {} THEN out \o SubSeq(s, i, Len(s))
        ELSE LET j == CHOOSE j \in found : \A k \in found : j <= k
             IN  ReplaceAllFrom(s, j + Len(old), old, new,
                                out \o SubSeq(s, i, j - 1) \o new)

ReplaceAll(s, old, new) == ReplaceAllFrom(s, 1, old, new, <<>>)

(* every ampersand escaped, whatever follows it *)
RepairEveryAmpersand(data) == ReplaceAll(data, Text(<<"&">>), Text(<<"&", "a", "m", "p", ";">>))

RepairPanScan(data) == ReplaceAll(data, PanScan, PanAmpScan)

RepairLetterbox(data) == ReplaceAll(data, Letterbox, AmpLetterbox)

----------------------------------------------------------------------------
(* Struct tags: for each struct type, its fields in declaration order *)

Scalar(tag, name, kind) == [tag |-> tag, name |-> name, kind |-> kind, type |-> ""]
Nested(tag, name, kind, type) == [tag |-> tag, name |-> name, kind |-> kind, type |-> type]

FieldsOf(type) ==
    CASE type = "DVD" ->
            << Scalar("device", "Device", "string"),
               Scalar("title", "Title", "string"),
               Scalar("vmg_id", "VMGID", "string"),
               Scalar("provider_id", "ProviderID", "string"),
               Nested("track", "Tracks", "[]struct", "Track"),
               Scalar("longest_track", "LongestTrack", "int") >>
      [] type = "Track" ->
            << Scalar("ix", "Index", "int"),
               Scalar("length", "Length", "float64"),
               Scalar("vts_id", "VTSID", "string"),
               Scalar("vts", "VTS", "int"),
               Scalar("ttn", "TTN", "int"),
               Scalar("fps", "FPS", "float64"),
               Scalar("format", "Format", "string"),
               Scalar("aspect", "Aspect", "string"),
               Scalar("width", "Width", "int"),
               Scalar("height", "Height", "int"),
               Scalar("df", "DF", "string"),
               Nested("palette", "Palette", "struct", "Palette"),
               Scalar("angles", "Angles", "int"),
               Nested("audio", "AudioStreams", "[]struct", "AudioStream"),
               Nested("subp", "SubtitleStreams", "[]struct", "SubtitleStream"),
               Nested("chapter", "Chapters", "[]struct", "Chapter"),
               Nested("cell", "Cells", "[]struct", "Cell") >>
      [] type = "Palette" ->
            << Scalar("color", "Colors", "[]string") >>
      [] type = "AudioStream" ->
            << Scalar("ix", "Index", "int"),
               Scalar("langcode", "LanguageCode", "string"),
               Scalar("language", "Language", "string"),
               Scalar("format", "Format", "string"),
               Scalar("frequency", "Frequency", "int"),
               Scalar("quantization", "Quantization", "string"),
               Scalar("channels", "Channels", "int"),
               Scalar("ap_mode", "APMode", "int"),
               Scalar("content", "Content", "string"),
               Scalar("streamid", "StreamID", "string") >>
      [] type = "SubtitleStream" ->
            << Scalar("ix", "Index", "int"),
               Scalar("langcode", "LanguageCode", "string"),
               Scalar("language", "Language", "string"),
               Scalar("content", "Content", "string"),
               Scalar("streamid", "StreamID", "string") >>
      [] type = "Chapter" ->
            << Scalar("ix", "Index", "int"),
               Scalar("length", "Length", "float64"),
               Scalar("startcell", "StartCell", "int") >>
      [] type = "Cell" ->
            << Scalar("ix", "Index", "int"),
               Scalar("length", "Length", "float64") >>

(* the tag of the root element, from the XMLName field of DVD *)
XMLName == "lsdvd"

FieldNames(type) == {FieldsOf(type)[k].name : k \in DOMAIN FieldsOf(type)}

FieldNamed(type, name) ==
    FieldsOf(type)[CHOOSE k \in DOMAIN FieldsOf(type) : FieldsOf(type)[k].name = name]

(* the zero value of a struct type *)
RECURSIVE Zero(_)
Zero(type) ==
    [name \in FieldNames(type) |->
        LET f == FieldNamed(type, name)
        IN  CASE f.kind = "string" -> ""
              [] f.kind \in {"int", "float64"} -> 0
              [] f.kind \in {"[]string", "[]struct"} -> <<>>
              [] f.kind = "struct" -> Zero(f.type)]

----------------------------------------------------------------------------
(* xml.Unmarshal *)

(* the result of a decoding step: the value built, the position of the *)
(* next symbol to read, and the error (nil when empty)                 *)
Step(val, pos, err) == [val |-> val, pos |-> pos, err |-> err]

SyntaxError(msg) == <<"XML syntax error: ", msg>>

(* the predefined entities of encoding/xml *)
Entities ==
    { [name |-> <<"a", "m", "p">>, char |-> "&"],
      [name |-> <<"l", "t">>, char |-> "<"],
      [name |-> <<"g", "t">>, char |-> ">"],
      [name |-> <<"a", "p", "o", "s">>, char |-> "'"],
      [name |-> <<"q", "u", "o", "t">>, char |-> "\""] }

(* the entities whose reference &name; starts at position i *)
EntitiesAt(s, i) ==
    {e \in Entities : HasPrefixAt(s, i, Text(<<"&">> \o e.name \o <<";">>))}

(* character data: the run of text and CDATA sections from position i.  *)
(* In text an ampersand starts an entity reference, which is replaced;  *)
(* in a CDATA section every character is taken as it is.  val is the    *)
(* sequence of the characters.                                          *)
RECURSIVE CharData(_, _, _)
RECURSIVE CDataSection(_, _, _)
CDataSection(s, i, chars) ==
    LET ends == {j \in i..Len(s) : s[j] = CDataEnd}
        taken(j) == chars \o [k \in 1..(j - i) |-> s[i + k - 1][2]]
    IN  IF ends = {}
        THEN Step(taken(Len(s) + 1), Len(s) + 1,
                  SyntaxError("unexpected EOF in CDATA section"))
        ELSE LET end == CHOOSE j \in ends : \A k \in ends : j <= k
             IN  CharData(s, end + 1, taken(end))

CharData(s, i, chars) ==
    IF i > Len(s) \/ s[i][1] \in {"s", "e"} THEN Step(chars, i, <<>>)
    ELSE IF s[i] = CDataStart THEN CDataSection(s, i + 1, chars)
    ELSE IF s[i] = CDataEnd
         THEN Step(chars, i, SyntaxError("unescaped ]]> not in CDATA section"))
    ELSE IF s[i][2] # "&"
         THEN LET stop == CHOOSE j \in (i + 1)..(Len(s) + 1) :
                            /\ j <= Len(s) => ~(s[j][1] = "c" /\ s[j][2] # "&")
                            /\ \A k \in i..(j - 1) : s[k][1] = "c" /\ s[k][2] # "&"
              IN  CharData(s, stop, chars \o [k \in 1..(stop - i) |-> s[i + k - 1][2]])
    ELSE IF EntitiesAt(s, i) = {}
         THEN Step(chars, i, SyntaxError("invalid character entity"))
         ELSE LET e == CHOOSE e \in EntitiesAt(s, i) : TRUE
              IN  CharData(s, i + Len(e.name) + 2, Append(chars, e.char))

(* nothing skipped: the content of the element is left to the caller *)
SkipStartTagOnly(s, i, name) == [val |-> <<>>, pos |-> i, err |-> <<>>]

(* Decoder.Skip: the rest of the element name, its end tag included *)
RECURSIVE Skip(_, _, _)
Skip(s, i, name) ==
    IF i > Len(s) THEN Step(<<>>, i, SyntaxError("unexpected EOF"))
    ELSE IF s[i][1] = "e"
         THEN IF s[i][2] = name
              THEN Step(<<>>, i + 1, <<>>)
              ELSE Step(<<>>, i, SyntaxError("element closed by another end tag"))
    ELSE IF s[i][1] = "s"
         THEN LET r == Skip(s, i + 1, s[i][2])
              IN  IF r.err # <<>> THEN r ELSE Skip(s, r.pos, name)
    ELSE LET r == CharData(s, i, <<>>)
         IN  IF r.err # <<>> THEN r ELSE Skip(s, r.pos, name)

IsSpace(ch) == ch \in {" ", "\n", "\t", "\r"}

RECURSIVE TrimLeft(_)
TrimLeft(chars) ==
    IF chars # <<>> /\ IsSpace(Head(chars)) THEN TrimLeft(Tail(chars)) ELSE chars

RECURSIVE TrimRight(_)
TrimRight(chars) ==
    IF chars # <<>> /\ IsSpace(chars[Len(chars)])
    THEN TrimRight(SubSeq(chars, 1, Len(chars) - 1))
    ELSE chars

TrimSpace(chars) == TrimRight(TrimLeft(chars))

Digits == {"0", "1", "2", "3", "4", "5", "6", "7", "8", "9"}

DigitValue(ch) ==
    CASE ch = "0" -> 0 [] ch = "1" -> 1 [] ch = "2" -> 2 [] ch = "3" -> 3
      [] ch = "4" -> 4 [] ch = "5" -> 5 [] ch = "6" -> 6 [] ch = "7" -> 7
      [] ch = "8" -> 8 [] ch = "9" -> 9

RECURSIVE DecimalValue(_, _)
DecimalValue(digits, acc) ==
    IF digits = <<>> THEN acc
    ELSE DecimalValue(Tail(digits), 10 * acc + DigitValue(Head(digits)))

IsDigits(chars) == chars # <<>> /\ \A k \in DOMAIN chars : chars[k] \in Digits

(* the numeral without its sign *)
Unsigned(chars) ==
    IF chars # <<>> /\ Head(chars) \in {"+", "-"} THEN Tail(chars) ELSE chars

Signed(chars, value) ==
    IF chars # <<>> /\ Head(chars) = "-" THEN 0 - value ELSE value

NumError(fn) == <<"strconv.", fn, ": parsing: invalid syntax">>

(* strconv.ParseInt(s, 10, 64), for numerals within 64 bits *)
ParseInt(chars) ==
    IF IsDigits(Unsigned(chars))
    THEN Step(Signed(chars, DecimalValue(Unsigned(chars), 0)), 0, <<>>)
    ELSE Step(0, 0, NumError("ParseInt"))

(* the position of the decimal point, 0 when there is none *)
PointAt(chars) ==
    IF \E k \in DOMAIN chars : chars[k] = "."
    THEN CHOOSE k \in DOMAIN chars :
            chars[k] = "." /\ \A m \in 1..(k - 1) : chars[m] # "."
    ELSE 0

(* strconv.ParseFloat(s, 64) on decimal numerals without exponent.  The *)
(* model holds whole numbers only: a numeral with a fraction other than *)
(* zero has no value here.                                              *)
ParseFloat(chars) ==
    LET u == Unsigned(chars)
        p == PointAt(u)
        whole == IF p = 0 THEN u ELSE SubSeq(u, 1, p - 1)
        frac == IF p = 0 THEN <<>> ELSE SubSeq(u, p + 1, Len(u))
    IN  IF /\ IsDigits(whole \o frac)
           /\ \A k \in DOMAIN whole : whole[k] \in Digits
           /\ \A k \in DOMAIN frac : frac[k] \in Digits
        THEN Step(Signed(chars,
                    CHOOSE v \in {DecimalValue(whole, 0)} :
                        \A k \in DOMAIN frac : frac[k] = "0"), 0, <<>>)
        ELSE Step(0, 0, NumError("ParseFloat"))

(* copyValue: the character data of an element converted to the field's kind *)
CopyValue(kind, chars) ==
    CASE kind \in {"string", "[]string"} -> Step(Str(chars), 0, <<>>)
      [] kind = "int" ->
            IF chars = <<>> THEN Step(0, 0, <<>>)
            ELSE ParseInt(TrimSpace(chars))
      [] kind = "float64" ->
            IF chars = <<>> THEN Step(0, 0, <<>>)
            ELSE ParseFloat(TrimSpace(chars))

(* the content of a scalar element name: its character data collected, *)
(* nested elements skipped, up to its end tag                          *)
RECURSIVE ScalarContent(_, _, _, _)
ScalarContent(s, i, name, chars) ==
    IF i > Len(s) THEN Step(chars, i, SyntaxError("unexpected EOF"))
    ELSE IF s[i][1] = "e"
         THEN IF s[i][2] = name
              THEN Step(chars, i + 1, <<>>)
              ELSE Step(chars, i, SyntaxError("element closed by another end tag"))
    ELSE IF s[i][1] = "s"
         THEN LET r == Skip(s, i + 1, s[i][2])
              IN  IF r.err # <<>> THEN Step(chars, r.pos, r.err)
                  ELSE ScalarContent(s, r.pos, name, chars)
    ELSE LET r == CharData(s, i, <<>>)
         IN  IF r.err # <<>> THEN Step(chars, r.pos, r.err)
             ELSE ScalarContent(s, r.pos, name, chars \o r.val)

(* the fields of type whose tag is tag *)
FieldsTagged(type, tag) ==
    {k \in DOMAIN FieldsOf(type) : FieldsOf(type)[k].tag = tag}

(* the element put before those decoded so far *)
PrependValue(seq, v) == <<v>> \o seq

(* a slice field grown by the element just decoded *)
AppendValue(seq, v) == Append(seq, v)

RECURSIVE UnmarshalStruct(_, _, _, _, _)

(* the child element that starts at i: it goes to the field of its tag in *)
(* val, or is skipped when no field has its tag                           *)
UnmarshalChild(s, i, type, val) ==
    IF FieldsTagged(type, s[i][2]) = {}
    THEN LET r == Skip(s, i + 1, s[i][2])
         IN  Step(val, r.pos, r.err)
    ELSE LET f == FieldsOf(type)[CHOOSE k \in FieldsTagged(type, s[i][2]) : TRUE]
         IN  IF f.kind = "struct"
             THEN LET r == UnmarshalStruct(s, i + 1, f.type, f.tag, val[f.name])
                  IN  IF r.err # <<>> THEN Step(val, r.pos, r.err)
                      ELSE Step([val EXCEPT ![f.name] = r.val], r.pos, <<>>)
             ELSE IF f.kind = "[]struct"
             THEN LET r == UnmarshalStruct(s, i + 1, f.type, f.tag, Zero(f.type))
                  IN  IF r.err # <<>> THEN Step(val, r.pos, r.err)
                      ELSE Step([val EXCEPT ![f.name] = AppendValue(@, r.val)],
                                r.pos, <<>>)
             ELSE LET r == ScalarContent(s, i + 1, f.tag, <<>>)
                      v == CopyValue(f.kind, r.val)
                  IN  IF r.err # <<>> THEN Step(val, r.pos, r.err)
                      ELSE IF v.err # <<>> THEN Step(val, r.pos, v.err)
                      ELSE Step([val EXCEPT ![f.name] =
                                    IF f.kind = "[]string" THEN AppendValue(@, v.val)
                                    ELSE v.val],
                                r.pos, <<>>)

(* character data between the children: read and dropped *)
DroppedText(val, text) == Step(val, text.pos, text.err)

(* after the child or the text that gave r: the rest of the element, or *)
(* the error of r                                                       *)
UnmarshalRest(s, type, name, r) ==
    IF r.err # <<>> THEN r
    ELSE UnmarshalStruct(s, r.pos, type, name, r.val)

(* the content of a struct element name decoded into val, up to its end *)
(* tag: each child goes to the field of its tag, a child of unknown tag *)
(* is skipped, character data between the children is dropped           *)
UnmarshalStruct(s, i, type, name, val) ==
    IF i > Len(s) THEN Step(val, i, SyntaxError("unexpected EOF"))
    ELSE IF s[i][1] = "e"
         THEN IF s[i][2] = name
              THEN Step(val, i + 1, <<>>)
              ELSE Step(val, i, SyntaxError("element closed by another end tag"))
    ELSE UnmarshalRest(s, type, name,
            IF s[i][1] = "s"
            THEN UnmarshalChild(s, i, type, val)
            ELSE DroppedText(val, CharData(s, i, <<>>)))

(* xml.Unmarshal(data, &dvd): the first element of data decoded into a DVD. *)
(* What precedes the first start tag is read and dropped, what follows the  *)
(* element's end tag is not read.  val is the DVD as far as it was filled.  *)
RECURSIVE UnmarshalFrom(_, _)
UnmarshalFrom(s, i) ==
    IF i > Len(s) THEN Step(Zero("DVD"), i, <<"EOF">>)
    ELSE IF s[i][1] \notin {"s", "e"}
         THEN LET r == CharData(s, i, <<>>)
              IN  IF r.err # <<>> THEN Step(Zero("DVD"), r.pos, r.err)
                  ELSE UnmarshalFrom(s, r.pos)
    ELSE IF s[i][1] = "e"
         THEN Step(Zero("DVD"), i, SyntaxError("unexpected end element"))
    ELSE IF s[i][2] # XMLName
         THEN Step(Zero("DVD"), i, <<"expected element type <lsdvd> but have <", s[i][2], ">">>)
    ELSE UnmarshalStruct(s, i + 1, "DVD", s[i][2], Zero("DVD"))

Unmarshal(data) == UnmarshalFrom(data, 1)

----------------------------------------------------------------------------
(* ParseBytes and ParseFile.  A result is the pair returned, with two     *)
(* records of what the call did: text, the bytes handed to xml.Unmarshal, *)
(* and unmarshals, the number of calls of xml.Unmarshal.                  *)

Result(dvdPtr, err, text, unmarshals) ==
    [dvd |-> dvdPtr, err |-> err, text |-> text, unmarshals |-> unmarshals]

(* the bytes decoded as they came *)
ParseBytesUnrepaired(data) ==
    LET r == Unmarshal(data)
    IN  IF r.err # <<>>
        THEN Result(<<>>, <<"failed to parse XML: ">> \o r.err, data, 1)
        ELSE Result(<<r.val>>, <<>>, data, 1)

ParseBytes(data) ==
    LET text == RepairLetterbox(RepairPanScan(data))
        r == Unmarshal(text)
    IN  IF r.err # <<>>
        THEN Result(<<>>, <<"failed to parse XML: ">> \o r.err, text, 1)
        ELSE Result(<<r.val>>, <<>>, text, 1)

(* ioutil.ReadFile: the contents, or the error of the failed read *)
ReadFile(file) == [data |-> file.data, err |-> file.err]

(* the contents decoded before the error of the read is looked at *)
ParseFileDecodingFirst(filename, file) ==
    LET read == ReadFile(file)
        r == ParseBytes(read.data)
    IN  IF read.err # <<>>
        THEN Result(<<>>, <<"failed to read file ", filename, ": ">> \o read.err,
                    r.text, r.unmarshals)
        ELSE r

ParseFile(filename, file) ==
    LET read == ReadFile(file)
    IN  IF read.err # <<>>
        THEN Result(<<>>, <<"failed to read file ", filename, ": ">> \o read.err, <<>>, 0)
        ELSE ParseBytes(read.data)

----------------------------------------------------------------------------
(* Input documents.  A source describes a document: the name of its root, *)
(* its children, and how its markup is damaged.  An optional text is a    *)
(* sequence of no text or one, a text the sequence of its characters.     *)

MaxPieces == 3

(* the pieces texts are made of: the two patterns of the repair, their   *)
(* parts, the ampersand bare and escaped                                 *)
Pieces ==
    { <<"P", "a", "n", "&", "S", "c", "a", "n">>,
      <<"&", "L", "e", "t", "t", "e", "r", "b", "o", "x">>,
      <<"P", "a", "n">>, <<"S", "c", "a", "n">>,
      <<"L", "e", "t", "t", "e", "r", "b", "o", "x">>,
      <<"&">>, <<"&", "a", "m", "p", ";">> }

RECURSIVE Flatten(_)
Flatten(seqs) == IF seqs = <<>> THEN <<>> ELSE Head(seqs) \o Flatten(Tail(seqs))

(* numerals of ix, length and longest_track tags *)
IxTexts == { <<"1">>, <<"2">>, <<"0", "7">> }
LengthText == <<"2", "7", "0", "0", ".", "0">>
DeviceText == <<".", "/", "t", "e", "s", "t">>
BadNumeral == <<"x", "1">>

Damages == {"none", "mismatch", "truncated", "trailing", "leading"}

Elem(name, content) == <<StartTag(name)>> \o content \o <<EndTag(name)>>

Leaf(name, chars) == Elem(name, Text(chars))

Opt(name, text) == IF text = <<>> THEN <<>> ELSE Leaf(name, text[1])

(* one element name per numeral of ixs, each holding an ix tag *)
Indexed(name, ixs) == Flatten([k \in DOMAIN ixs |-> Elem(name, Leaf("ix", ixs[k]))])

(* an element the struct tags do not know, holding a tag they know *)
UnknownElem == Elem("menu", Leaf("ix", <<"9">>) \o Leaf("length", <<"9">>))

TrackSource(ix, length, df, colors, audio, subp, chapters, cells) ==
    [ix |-> ix, length |-> length, df |-> df, colors |-> colors, audio |-> audio,
     subp |-> subp, chapters |-> chapters, cells |-> cells]

Source(root, device, tracks, longest, unknown, damage) ==
    [kind |-> "document", root |-> root, device |-> device, tracks |-> tracks,
     longest |-> longest, unknown |-> unknown, damage |-> damage]

RawSource(chars) == [kind |-> "raw", text |-> chars]

(* a document whose only track holds the df chars in a CDATA section *)
CDataSource(chars) == [kind |-> "cdata", text |-> chars]

TrackElem(t, unknown) ==
    Elem("track",
        Opt("ix", t.ix)
        \o (IF unknown THEN UnknownElem ELSE <<>>)
        \o Opt("length", t.length)
        \o Opt("df", t.df)
        \o (IF t.colors = <<>> THEN <<>>
            ELSE Elem("palette",
                    Flatten([k \in DOMAIN t.colors |-> Leaf("color", t.colors[k])])))
        \o Indexed("audio", t.audio)
        \o Indexed("subp", t.subp)
        \o Indexed("chapter", t.chapters)
        \o Indexed("cell", t.cells))

(* the markup as the source describes it, undamaged *)
Markup(src) ==
    Elem(src.root,
        Opt("device", src.device)
        \o (IF src.unknown THEN UnknownElem ELSE <<>>)
        \o Flatten([k \in DOMAIN src.tracks |-> TrackElem(src.tracks[k], src.unknown)])
        \o Opt("longest_track", src.longest))

(* the bytes of the document *)
Document(src) ==
    IF src.kind = "raw" THEN Text(src.text)
    ELSE IF src.kind = "cdata"
    THEN Elem("lsdvd",
            Elem("track",
                Leaf("ix", <<"1">>)
                \o Elem("df", <<CDataStart>> \o Text(src.text) \o <<CDataEnd>>)))
    ELSE LET m == Markup(src)
         IN  CASE src.damage = "none" -> m
               [] src.damage = "mismatch" ->
                    SubSeq(m, 1, Len(m) - 1) \o <<EndTag("incomplete")>>
               [] src.damage = "truncated" -> SubSeq(m, 1, Len(m) - 1)
               [] src.damage = "trailing" -> m \o <<EndTag("track")>>
               [] src.damage = "leading" -> Text(<<"x">>) \o m

PlainTrack(ix) == TrackSource(ix, <<LengthText>>, <<>>, <<>>, <<>>, <<>>, <<>>, <<>>)

SeqsUpTo(S, n) == UNION {[1..k -> S] : k \in 0..n}

(* a text of pieces, alone or as the df of the only track *)
EntitySources ==
    UNION { { RawSource(Flatten(ps)),
              Source("lsdvd", <<DeviceText>>,
                     <<TrackSource(<<<<"1">>>>, <<LengthText>>, <<Flatten(ps)>>,
                                   <<>>, <<>>, <<>>, <<>>, <<>>)>>,
                     <<<<"1">>>>, FALSE, "none") } :
            ps \in SeqsUpTo(Pieces, MaxPieces) }

(* tags present or absent, unknown tags present or absent *)
AbsenceSources ==
    { Source("lsdvd", device,
             [k \in 1..n |-> TrackSource(ix, length, <<>>, <<>>, <<>>, <<>>, <<>>, <<>>)],
             longest, unknown, "none") :
        device \in {<<>>, <<DeviceText>>}, longest \in {<<>>, <<<<"1">>>>},
        unknown \in BOOLEAN, ix \in {<<>>, <<<<"2">>>>},
        length \in {<<>>, <<LengthText>>}, n \in 0..1 }

(* repeated tags: tracks, and the children of one track *)
OrderSources ==
    { Source("lsdvd", <<>>, [k \in DOMAIN ixs |-> PlainTrack(<<ixs[k]>>)],
             <<>>, FALSE, "none") : ixs \in SeqsUpTo(IxTexts, MaxTracks) }
    \cup
    { Source("lsdvd", <<>>,
             <<TrackSource(<<<<"1">>>>, <<>>, <<>>, cs, as, as, cs, cs)>>,
             <<>>, FALSE, "none") :
        cs \in SeqsUpTo(IxTexts, MaxChapters), as \in SeqsUpTo(IxTexts, MaxStreams) }

(* damaged markup, another root, a numeral that is none *)
DamagedSources ==
    { Source(root, <<DeviceText>>, <<PlainTrack(<<ix>>)>>, <<<<"1">>>>, FALSE, damage) :
        root \in {"lsdvd", "invalid"}, damage \in Damages,
        ix \in {<<"1">>, BadNumeral} }

(* a piece in a CDATA section *)
CDataSources == { CDataSource(Flatten(ps)) : ps \in SeqsUpTo(Pieces, 1) }

Sources ==
    EntitySources \cup AbsenceSources \cup OrderSources \cup DamagedSources
    \cup CDataSources

FileName == "s1d1.xml"

(* what reading the file gives: its contents, or the error of the read *)
Files(data) ==
    { [data |-> data, err |-> <<>>] }
    \cup { [data |-> <<>>, err |-> <<"open ", FileName, ": ", cause>>] :
            cause \in {"no such file or directory", "permission denied"} }

NoResult == Result(<<>>, <<>>, <<>>, 0)

(* the caller holds a document, as bytes and as the file FileName, and    *)
(* has decoded nothing                                                    *)
InitParse ==
    /\ \E src \in Sources : \E file \in Files(Document(src)) :
        call = [op |-> "none", source |-> src, data |-> Document(src), file |-> file]
    /\ dvd = <<>>
    /\ ret = NoResult
    /\ panicked = FALSE

DoParseBytes ==
    /\ call.op = "none"
    /\ call' = [call EXCEPT !.op = "ParseBytes"]
    /\ ret' = ParseBytes(call.data)
    /\ dvd' = ret'.dvd
    /\ UNCHANGED panicked

DoParseFile ==
    /\ call.op = "none"
    /\ call' = [call EXCEPT !.op = "ParseFile"]
    /\ ret' = ParseFile(FileName, call.file)
    /\ dvd' = ret'.dvd
    /\ UNCHANGED panicked

NextParse == DoParseBytes \/ DoParseFile

SpecParse == InitParse /\ [][NextParse]_vars

----------------------------------------------------------------------------
(* The command-line program (src/dvd_metadata.go).  Strings it cuts and *)
(* joins are sequences of characters.                                   *)

(* the characters of a string of a decoded disc *)
Bytes(str) == CHOOSE chars \in {<<>>, DeviceText} : Str(chars) = str

(* %d of a whole number *)
RECURSIVE Itoa(_)
Itoa(n) ==
    IF n < 0 THEN <<"-">> \o Itoa(0 - n)
    ELSE IF n < 10 THEN <<CHOOSE d \in Digits : DigitValue(d) = n>>
    ELSE Itoa(n \div 10) \o Itoa(n % 10)

(* %02d: padded with a zero to two characters *)
Pad2(n) == IF n >= 0 /\ n < 10 THEN <<"0">> \o Itoa(n) ELSE Itoa(n)

(* %q of a string of printable characters *)
Quote(chars) ==
    <<"\"">>
    \o Flatten([k \in DOMAIN chars |->
                    IF chars[k] \in {"\"", "\\"} THEN <<"\\", chars[k]>> ELSE <<chars[k]>>])
    \o <<"\"">>

CommandHead ==
    <<"f", "f", "m", "p", "e", "g", " ", "-", "f", " ", "d", "v", "d",
           "v", "i", "d", "e", "o", " ", "-", "i", " ", "'">>

CommandCopy ==
    <<" ", "-", "m", "a", "p", " ", "0", " ", "-", "c", " ", "c", "o",
           "p", "y", " ">>

generateFFmpegCommand(d, match, dvdPath, outputPrefix) ==
    LET track == d.Tracks[match.Track]
    IN  IF match.Type = "track"
        THEN LET outputFile ==
                    outputPrefix \o <<"_", "t", "r", "a", "c", "k", "_">> \o Pad2(track.Index) \o <<".", "m", "k", "v">>
             IN  CommandHead \o dvdPath \o <<"'", " ", "-", "t", "i", "t", "l", "e", " ">> \o Itoa(track.Index)
                 \o CommandCopy \o Quote(outputFile)
        ELSE LET chapter == track.Chapters[match.Chapter]
                 outputFile ==
                    outputPrefix \o <<"_", "t", "r", "a", "c", "k", "_">> \o Pad2(track.Index)
                    \o <<"_", "c", "h", "a", "p", "t", "e", "r", "_">> \o Pad2(chapter.Index) \o <<".", "m", "k", "v">>
             IN  CommandHead \o dvdPath \o <<"'", " ", "-", "t", "i", "t", "l", "e", " ">> \o Itoa(track.Index)
                 \o <<" ", "-", "c", "h", "a", "p", "t", "e", "r", "_", "s", "t", "a",
       "r", "t", " ">> \o Itoa(chapter.Index)
                 \o <<" ", "-", "c", "h", "a", "p", "t", "e", "r", "_", "e", "n", "d", " ">> \o Itoa(chapter.Index + 1)
                 \o CommandCopy \o Quote(outputFile)

(* the device without its leading "./" *)
extractDVDPathTrimAll(device) ==
    IF Len(device) >= 2 /\ SubSeq(device, 1, 2) = <<".", "/">>
    THEN LET rest == SubSeq(device, 3, Len(device))
         IN  IF Len(rest) >= 2 /\ SubSeq(rest, 1, 2) = <<".", "/">>
             THEN SubSeq(rest, 3, Len(rest))
             ELSE rest
    ELSE device

extractDVDPath(device) ==
    IF Len(device) >= 2 /\ SubSeq(device, 1, 2) = <<".", "/">>
    THEN SubSeq(device, 3, Len(device))
    ELSE device

MaxFiles == 3

(* the name of the k-th file of the source directory *)
XMLFile(k) ==
    <<"s", "o", "u", "r", "c", "e", "/", "s", "1", "d">> \o Itoa(k)
    \o <<".", "x", "m", "l">>

(* filepath.Base of a path that does not end in a separator *)
RECURSIVE Base(_)
Base(path) ==
    IF \E k \in DOMAIN path : path[k] = "/" THEN Base(Tail(path)) ELSE path

(* what a file of the batch holds: a disc with a track of forty minutes *)
(* and a shorter track with a chapter of forty minutes, a disc without  *)
(* tracks, markup with a mismatched end tag, or nothing readable        *)
Contents(kind) ==
    CASE kind = "episodes" ->
            [data |->
                Elem("lsdvd",
                    Leaf("device", DeviceText)
                    \o Elem("track",
                            Leaf("ix", <<"1">>) \o Leaf("length", <<"2", "4", "0", "0">>))
                    \o Elem("track",
                            Leaf("ix", <<"2">>) \o Leaf("length", <<"9", "0", "0">>)
                            \o Elem("chapter",
                                    Leaf("ix", <<"1">>)
                                    \o Leaf("length", <<"2", "4", "0", "0">>)))
                    \o Leaf("longest_track", <<"1">>)),
             err |-> <<>>]
      [] kind = "empty" -> [data |-> Elem("lsdvd", <<>>), err |-> <<>>]
      [] kind = "malformed" ->
            [data |-> <<StartTag("lsdvd"), StartTag("track"), EndTag("lsdvd")>>,
             err |-> <<>>]
      [] kind = "unreadable" -> [data |-> <<>>, err |-> <<"permission denied">>]

Kinds == {"episodes", "empty", "malformed", "unreadable"}

Line(kind, text) == [kind |-> kind, text |-> text]

(* printDVDSummary and printDetailedTrackInfo, as the blocks they print *)
printDVDSummary(filename, d) == <<Line("summary", <<filename, Len(d.Tracks)>>)>>

printDetailedTrackInfo(track) == <<Line("detail", <<track.Index>>)>>

(* findEpisodeContent, as the lines it prints: the heading, a line for *)
(* each match, the summary                                             *)
findEpisodeContent(filename, d, targetMinutes, toleranceMinutes) ==
    LET matches == FindContentAroundDuration(d, targetMinutes, toleranceMinutes)
    IN  <<Line("heading", <<filename, targetMinutes>>)>>
        \o (IF matches = <<>> THEN <<Line("none", <<targetMinutes>>)>>
            ELSE [k \in DOMAIN matches |->
                    Line(matches[k].Type, <<matches[k].Track, matches[k].Chapter>>)]
                 \o <<Line("found", <<targetMinutes>>)>>)

(* the commands of the matches from position k on, one for a track match *)
RECURSIVE Commands(_, _, _, _, _)
Commands(d, matches, k, dvdPath, outputPrefix) ==
    IF k > Len(matches) THEN <<>>
    ELSE (IF matches[k].Type = "track"
          THEN <<Line("command",
                      generateFFmpegCommand(d, matches[k], dvdPath, outputPrefix))>>
          ELSE <<>>)
         \o Commands(d, matches, k + 1, dvdPath, outputPrefix)

(* the lines that the body of the loop of main prints for xmlFile, r *)
(* being what ParseFile returned for it                              *)
Body(flags, xmlFile, r) ==
    LET d == r.dvd[1]
        base == Base(xmlFile)
    IN  IF r.err # <<>>
        THEN <<Line("error", <<"Error parsing ", xmlFile, ": ">> \o r.err)>>
        ELSE IF flags.episodes > 0
        THEN IF flags.ffmpeg
             THEN Commands(d, FindContentAroundDuration(d, flags.episodes, flags.tolerance),
                           1, extractDVDPath(Bytes(d.Device)),
                           SubSeq(base, 1, Len(base) - 4)
                           \o <<"_", "e", "p", "i", "s", "o", "d", "e", "s">>)
             ELSE findEpisodeContent(base, d, flags.episodes, flags.tolerance)
        ELSE printDVDSummary(base, d)
             \o (IF flags.detailed /\ GetLongestTrack(d) # Nil
                 THEN printDetailedTrackInfo(d.Tracks[GetLongestTrack(d)])
                 ELSE <<>>)

(* main after the flags are parsed and the files listed.  call holds the *)
(* flags, the kinds of the files listed, i the position in xmlFiles of   *)
(* the next file (0 before the loop), parsed the files ParseFile was     *)
(* called with; ret is the standard output, dvd the disc decoded last.   *)
InitCLI ==
    /\ \E files \in SeqsUpTo(Kinds, MaxFiles), episodes \in {0, 40},
          ffmpeg \in BOOLEAN, detailed \in BOOLEAN :
        call = [op |-> "main",
                flags |-> [episodes |-> episodes, tolerance |-> 5,
                           ffmpeg |-> ffmpeg, detailed |-> detailed],
                files |-> files, i |-> 0, parsed |-> <<>>]
    /\ dvd = <<>>
    /\ ret = <<>>
    /\ panicked = FALSE

(* up to the loop: no file gives exit status 1, and the count of the *)
(* files is printed unless only commands are wanted                  *)
MainStart ==
    /\ call.op = "main"
    /\ call.i = 0
    /\ IF call.files = <<>>
       THEN /\ call' = [call EXCEPT !.op = "exit"]
            /\ ret' = Append(ret, Line("nofiles", <<>>))
       ELSE /\ call' = [call EXCEPT !.i = 1]
            /\ ret' = IF ~(call.flags.episodes > 0 /\ call.flags.ffmpeg)
                      THEN Append(ret, Line("count", <<Len(call.files)>>))
                      ELSE ret
    /\ UNCHANGED <<dvd, panicked>>

(* the loop left at the first file that fails *)
MainFileAborting ==
    /\ call.op = "main"
    /\ call.i \in DOMAIN call.files
    /\ \E r \in {ParseFile(XMLFile(call.i), Contents(call.files[call.i]))} :
        /\ ret' = ret \o Body(call.flags, XMLFile(call.i), r)
        /\ dvd' = r.dvd
        /\ call' = [call EXCEPT !.i = @ + 1,
                                !.parsed = Append(@, XMLFile(call.i)),
                                !.op = IF r.dvd = <<>> THEN "exit" ELSE @]
    /\ UNCHANGED panicked

(* one turn of the loop over xmlFiles *)
MainFile ==
    /\ call.op = "main"
    /\ call.i \in DOMAIN call.files
    /\ \E r \in {ParseFile(XMLFile(call.i), Contents(call.files[call.i]))} :
        /\ ret' = ret \o Body(call.flags, XMLFile(call.i), r)
        /\ dvd' = r.dvd
        /\ call' = [call EXCEPT !.i = @ + 1,
                                !.parsed = Append(@, XMLFile(call.i))]
    /\ UNCHANGED panicked

NextCLI == MainStart \/ MainFile

SpecCLI == InitCLI /\ [][NextCLI]_vars

----------------------------------------------------------------------------
(* Calls of ParseBytes running at the same time.  The memory (dvd) holds  *)
(* the byte slices (bufs) and the DVD values (dvds), each at its address.  *)
(* call.procs holds for each call the      *)
(* address of the caller's slice (arg) and the bytes that slice held when *)
(* the call started (given), the slice its variable data                  *)
(* refers to (data), the address of its variable dvd (dvdAddr), the error *)
(* of xml.Unmarshal (err) and the statement it is at (pc).  ret holds     *)
(* what each call returned.                                               *)

MaxCalls == 2

(* the documents of the callers *)
CallerDocuments ==
    { Elem("lsdvd", Elem("track", Leaf("ix", <<"1">>) \o Leaf("df", PanScanText))),
      Elem("lsdvd", Elem("track", Leaf("ix", <<"2">>))
                    \o Elem("track", Leaf("df", LetterboxText))),
      <<StartTag("lsdvd"), StartTag("track"), EndTag("lsdvd")>> }

(* An address is a pair: <<0, n>> for the n-th slice of the callers and *)
(* <<p, n>> for the n-th allocation of call p, so every allocation gets *)
(* an address that no other allocation has.                             *)
Fresh(heap, p) == <<p, Cardinality({a \in DOMAIN heap : a[1] = p}) + 1>>

(* the result of bytes.ReplaceAll written over the slice it was given *)
ReplaceAllInPlace(mem, p, addr, old, new) ==
    [mem |-> [mem EXCEPT !.bufs[addr] = ReplaceAll(mem.bufs[addr], old, new)],
     addr |-> addr]

(* bytes.ReplaceAll: the result is a new slice *)
ReplaceAllAlloc(mem, p, addr, old, new) ==
    [mem |-> [mem EXCEPT !.bufs = @ @@ (Fresh(mem.bufs, p) :> ReplaceAll(mem.bufs[addr], old, new))],
     addr |-> Fresh(mem.bufs, p)]

(* one variable dvd shared by the calls *)
SharedDVD(mem, p) ==
    [mem |-> [mem EXCEPT !.dvds = (<<0, 1>> :> Zero("DVD")) @@ @],
     addr |-> <<0, 1>>]

(* var dvd DVD: a variable of the call, which escapes to the heap *)
NewDVD(mem, p) ==
    [mem |-> [mem EXCEPT !.dvds = @ @@ (Fresh(mem.dvds, p) :> Zero("DVD"))],
     addr |-> Fresh(mem.dvds, p)]

InitConcurrent ==
    /\ \E bufs \in [1..2 -> CallerDocuments], args \in [1..MaxCalls -> 1..2] :
        /\ dvd = [bufs |-> [a \in {<<0, 1>>, <<0, 2>>} |-> bufs[a[2]]],
                  dvds |-> [a \in {} |-> Zero("DVD")]]
        /\ call = [op |-> "go",
                   procs |-> [p \in 1..MaxCalls |->
                               [arg |-> <<0, args[p]>>, given |-> bufs[args[p]],
                                data |-> <<0, args[p]>>, dvdAddr |-> <<>>,
                                err |-> <<>>, pc |-> "PanScan"]]]
    /\ ret = [p \in 1..MaxCalls |-> NoResult]
    /\ panicked = FALSE

(* the next statement of ParseBytes in call p *)
Statement(p) ==
    LET proc == call.procs[p]
    IN  /\ call.op = "go"
        /\ proc.pc # "done"
        /\ CASE proc.pc = "PanScan" ->
                    LET r == ReplaceAllAlloc(dvd, p, proc.data, PanScan, PanAmpScan)
                    IN  /\ dvd' = r.mem
                        /\ call' = [call EXCEPT !.procs[p].data = r.addr,
                                                !.procs[p].pc = "Letterbox"]
                        /\ UNCHANGED ret
             [] proc.pc = "Letterbox" ->
                    LET r == ReplaceAllAlloc(dvd, p, proc.data, Letterbox, AmpLetterbox)
                    IN  /\ dvd' = r.mem
                        /\ call' = [call EXCEPT !.procs[p].data = r.addr,
                                                !.procs[p].pc = "var"]
                        /\ UNCHANGED ret
             [] proc.pc = "var" ->
                    LET r == NewDVD(dvd, p)
                    IN  /\ dvd' = r.mem
                        /\ call' = [call EXCEPT !.procs[p].dvdAddr = r.addr,
                                                !.procs[p].pc = "Unmarshal"]
                        /\ UNCHANGED ret
             [] proc.pc = "Unmarshal" ->
                    LET r == Unmarshal(dvd.bufs[proc.data])
                    IN  /\ dvd' = [dvd EXCEPT !.dvds[proc.dvdAddr] = r.val]
                        /\ call' = [call EXCEPT !.procs[p].err = r.err,
                                                !.procs[p].pc = "return"]
                        /\ UNCHANGED ret
             [] proc.pc = "return" ->
                    /\ ret' = [ret EXCEPT ![p] =
                                IF proc.err # <<>>
                                THEN Result(<<>>, <<"failed to parse XML: ">> \o proc.err,
                                            dvd.bufs[proc.data], 1)
                                ELSE Result(<<proc.dvdAddr>>, <<>>, dvd.bufs[proc.data], 1)]
                    /\ call' = [call EXCEPT !.procs[p].pc = "done"]
                    /\ UNCHANGED dvd
        /\ UNCHANGED panicked

NextConcurrent == \E p \in 1..MaxCalls : Statement(p)

SpecConcurrent == InitConcurrent /\ [][NextConcurrent]_vars

----------------------------------------------------------------------------
(* extractDVDPath and generateFFmpegCommand called on their own: on every *)
(* device made of ".", "/" and "t" up to MaxDevice characters, and on the *)
(* matches found on the decoded disc of an "episodes" file.               *)

MaxDevice == 4

Devices == SeqsUpTo({".", "/", "t"}, MaxDevice)

EpisodesPrefix == <<"s", "1", "d", "1", "_", "e", "p", "i", "s", "o", "d", "e", "s">>

InitCommand ==
    /\ dvd = ParseFile(XMLFile(1), Contents("episodes")).dvd[1]
    /\ \E device \in Devices :
        call = [op |-> "none", device |-> device, match |-> <<>>]
    /\ ret = <<>>
    /\ panicked = FALSE

DoExtractDVDPath ==
    /\ call.op = "none"
    /\ call' = [call EXCEPT !.op = "extractDVDPath"]
    /\ ret' = extractDVDPath(call.device)
    /\ UNCHANGED <<dvd, panicked>>

DoGenerateFFmpegCommand ==
    /\ call.op = "none"
    /\ LET matches == FindContentAroundDuration(dvd, 40, 5)
       IN  \E k \in DOMAIN matches :
            /\ call' = [call EXCEPT !.op = "generateFFmpegCommand",
                                    !.match = <<matches[k]>>]
            /\ ret' = generateFFmpegCommand(dvd, matches[k], extractDVDPath(call.device),
                                            EpisodesPrefix)
    /\ UNCHANGED <<dvd, panicked>>

NextCommand == DoExtractDVDPath \/ DoGenerateFFmpegCommand

SpecCommand == InitCommand /\ [][NextCommand]_vars

----------------------------------------------------------------------------
(* Properties *)

IsFind == call.op = "FindContentAroundDuration"

(* the acceptance window of the call, in seconds, as float64 values *)
WindowLow ==
    Float64(Float64(call.targetMinutes * 60) - Float64(call.toleranceMinutes * 60))
WindowHigh ==
    Float64(Float64(call.targetMinutes * 60) + Float64(call.toleranceMinutes * 60))
Inside(length) == WindowLow <= length /\ length <= WindowHigh

TrackPositions == DOMAIN dvd.Tracks
ChapterPositions(i) == DOMAIN dvd.Tracks[i].Chapters

(* the positions in the result of the matches of track i *)
MatchesOfTrack(i) == {k \in DOMAIN ret : ret[k].Track = i}
MatchesOfChapter(i, j) == {k \in MatchesOfTrack(i) : ret[k].Chapter = j}

(* C1: a track whose Length is inside the window has exactly one match,   *)
(* of Type "track", with a nil Chapter and the track's Length as Duration, *)
(* and no chapter match, whatever the lengths of its chapters.             *)
C1_TrackMatchSuppressesChapters ==
    IsFind =>
        \A i \in TrackPositions :
            Inside(dvd.Tracks[i].Length) =>
                /\ Cardinality(MatchesOfTrack(i)) = 1
                /\ \A k \in MatchesOfTrack(i) :
                    /\ ret[k].Type = "track"
                    /\ ret[k].Chapter = Nil
                    /\ ret[k].Duration = dvd.Tracks[i].Length

(* a matching track one of whose chapters is inside the window too *)
C1_Witness ==
    /\ IsFind
    /\ \E i \in TrackPositions :
        /\ Inside(dvd.Tracks[i].Length)
        /\ \E j \in ChapterPositions(i) : Inside(dvd.Tracks[i].Chapters[j].Length)
        /\ Cardinality(MatchesOfTrack(i)) = 1

(* C2: a track whose Length is outside the window has no track match and   *)
(* exactly one chapter match for each of its chapters whose Length is      *)
(* inside the window, referencing the track and that chapter and carrying  *)
(* the chapter's Length as Duration.                                       *)
C2_ChapterMatchesOfNonMatchingTrack ==
    IsFind =>
        \A i \in TrackPositions :
            ~Inside(dvd.Tracks[i].Length) =>
                /\ \A k \in MatchesOfTrack(i) :
                    /\ ret[k].Type = "chapter"
                    /\ ret[k].Chapter \in ChapterPositions(i)
                    /\ ret[k].Duration = dvd.Tracks[i].Chapters[ret[k].Chapter].Length
                /\ \A j \in ChapterPositions(i) :
                    Cardinality(MatchesOfChapter(i, j)) =
                        IF Inside(dvd.Tracks[i].Chapters[j].Length) THEN 1 ELSE 0

(* a non-matching track with two chapters inside the window: two matches *)
C2_Witness ==
    /\ IsFind
    /\ \E i \in TrackPositions :
        /\ ~Inside(dvd.Tracks[i].Length)
        /\ Len(dvd.Tracks[i].Chapters) = 2
        /\ \A j \in ChapterPositions(i) : Inside(dvd.Tracks[i].Chapters[j].Length)
        /\ Cardinality(MatchesOfTrack(i)) = 2

(* C3: the window is inclusive at both ends.  A track is matched exactly   *)
(* when low <= Length <= high, a chapter of a non-matching track likewise, *)
(* no Duration of the result is outside the window, and a disc with no     *)
(* length inside the window gives no match.                                *)
C3_InclusiveWindow ==
    IsFind =>
        /\ \A k \in DOMAIN ret : Inside(ret[k].Duration)
        /\ \A i \in TrackPositions :
            /\ (\E k \in DOMAIN ret : ret[k].Type = "track" /\ ret[k].Track = i)
                    <=> Inside(dvd.Tracks[i].Length)
            /\ \A j \in ChapterPositions(i) :
                (\E k \in DOMAIN ret :
                    ret[k].Type = "chapter" /\ ret[k].Track = i /\ ret[k].Chapter = j)
                    <=> (/\ ~Inside(dvd.Tracks[i].Length)
                         /\ Inside(dvd.Tracks[i].Chapters[j].Length))
        /\ (\A i \in TrackPositions :
                /\ ~Inside(dvd.Tracks[i].Length)
                /\ \A j \in ChapterPositions(i) :
                    ~Inside(dvd.Tracks[i].Chapters[j].Length))
            => ret = <<>>

(* a window of positive width with a match on each of its two ends *)
C3_Witness ==
    /\ IsFind
    /\ WindowLow < WindowHigh
    /\ \E k \in DOMAIN ret : ret[k].Duration = WindowLow
    /\ \E k \in DOMAIN ret : ret[k].Duration = WindowHigh

(* C4: the result is in document order: the matches of an earlier track    *)
(* come before those of a later track, and the chapter matches of one      *)
(* track are in the order of its Chapters.                                 *)
C4_DocumentOrder ==
    IsFind =>
        \A k1, k2 \in DOMAIN ret :
            k1 < k2 =>
                \/ ret[k1].Track < ret[k2].Track
                \/ /\ ret[k1].Track = ret[k2].Track
                   /\ ret[k1].Chapter < ret[k2].Chapter

(* a track match followed by two chapter matches of a later track *)
C4_Witness ==
    /\ IsFind
    /\ Len(ret) = 3
    /\ ret[1].Type = "track"
    /\ ret[2].Type = "chapter"
    /\ ret[3].Type = "chapter"
    /\ ret[2].Track = ret[3].Track

(* C5: GetLongestTrack returns nil when the declared index is <= 0 or      *)
(* greater than the number of tracks, and otherwise the track at that      *)
(* 1-based position; it never indexes outside Tracks.                      *)
C5_LongestTrackByDeclaredPosition ==
    call.op = "GetLongestTrack" =>
        /\ ret # Panic
        /\ ~panicked
        /\ ret = IF dvd.LongestTrack \in 1..Len(dvd.Tracks)
                 THEN dvd.LongestTrack
                 ELSE Nil

(* the declared index is the last position, and that track is returned *)
C5_Witness ==
    /\ call.op = "GetLongestTrack"
    /\ dvd.LongestTrack = Len(dvd.Tracks)
    /\ Len(dvd.Tracks) > 1
    /\ ret = Len(dvd.Tracks)

(* i is a position of a track of greatest Length *)
IsGreatestLength(i) ==
    /\ i \in TrackPositions
    /\ \A m \in TrackPositions : dvd.Tracks[m].Length <= dvd.Tracks[i].Length

PositionsWithIndex(index) == {i \in TrackPositions : dvd.Tracks[i].Index = index}

(* C7: GetTrackByIndex(i) returns the first track whose Index field is i,  *)
(* and nil when no track has that Index, also for i within 1..len(Tracks). *)
C7_TrackByIndexField ==
    call.op = "GetTrackByIndex" =>
        IF PositionsWithIndex(call.index) = {}
        THEN ret = Nil
        ELSE /\ ret \in PositionsWithIndex(call.index)
             /\ \A i \in PositionsWithIndex(call.index) : ret <= i
             /\ dvd.Tracks[ret].Index = call.index

(* an index within the bounds of Tracks that no track carries *)
C7_Witness ==
    /\ call.op = "GetTrackByIndex"
    /\ call.index \in TrackPositions
    /\ PositionsWithIndex(call.index) = {}
    /\ ret = Nil

(* the sum of the Length of the tracks at the positions in S *)
RECURSIVE SumOfLengths(_)
SumOfLengths(S) ==
    IF S = {} THEN 0
    ELSE LET i == CHOOSE m \in S : TRUE
         IN  dvd.Tracks[i].Length + SumOfLengths(S \ {i})

(* C8: GetTotalDuration is the sum of the Length of every track, 0 for a   *)
(* disc without tracks, whatever the lengths of the chapters.              *)
C8_TotalIsSumOfTrackLengths ==
    call.op = "GetTotalDuration" =>
        /\ ret = SumOfLengths(TrackPositions)
        /\ dvd.Tracks = <<>> => ret = 0

(* a track whose only chapter has another length than the track *)
C8_Witness ==
    /\ call.op = "GetTotalDuration"
    /\ \E i \in TrackPositions :
        /\ Len(dvd.Tracks[i].Chapters) = 1
        /\ dvd.Tracks[i].Chapters[1].Length # dvd.Tracks[i].Length
    /\ ret = SumOfLengths(TrackPositions)
    /\ ret > 0

AudioLanguagesOfDisc ==
    {dvd.Tracks[i].AudioStreams[j].Language :
        <<i, j>> \in {<<m, n>> \in TrackPositions \X (1..MaxStreams + 1) :
                        n \in DOMAIN dvd.Tracks[m].AudioStreams}}

SubtitleLanguagesOfDisc ==
    {dvd.Tracks[i].SubtitleStreams[j].Language :
        <<i, j>> \in {<<m, n>> \in TrackPositions \X (1..MaxStreams + 1) :
                        n \in DOMAIN dvd.Tracks[m].SubtitleStreams}}

Range(s) == {s[k] : k \in DOMAIN s}

(* C9: GetAudioLanguages returns, without duplicates, exactly the          *)
(* non-empty Language values of the audio streams, GetSubtitleLanguages    *)
(* those of the subtitle streams; the empty string is never returned.      *)
C9_UniqueNonEmptyLanguages ==
    /\ call.op = "GetAudioLanguages" =>
        /\ Range(ret) = AudioLanguagesOfDisc \ {""}
        /\ Len(ret) = Cardinality(AudioLanguagesOfDisc \ {""})
    /\ call.op = "GetSubtitleLanguages" =>
        /\ Range(ret) = SubtitleLanguagesOfDisc \ {""}
        /\ Len(ret) = Cardinality(SubtitleLanguagesOfDisc \ {""})

(* an audio stream without language, and a language of the subtitles only *)
C9_Witness ==
    /\ call.op = "GetAudioLanguages"
    /\ "" \in AudioLanguagesOfDisc
    /\ "fr" \in SubtitleLanguagesOfDisc
    /\ ret = <<"en">>

(* C10: no query method changes the decoded disc, and none fails.          *)
C10_QueriesLeaveDiscUnchanged == [][dvd' = dvd /\ ~panicked']_vars

(* a call that found nothing on a disc with tracks, reported as empty *)
C10_Witness ==
    /\ call.op = "FindContentAroundDuration"
    /\ dvd.Tracks # <<>>
    /\ ret = <<>>
    /\ ~panicked

(* the window of forty minutes, five minutes either side, in seconds *)
Inside40(length) == 35 * 60 <= length /\ length <= 45 * 60

(* C20: FindFortyMinuteContent returns for every disc the matches of    *)
(* FindContentAroundDuration(40, 5), a matching track suppressing its   *)
(* chapters; a disc of one track of 2400 seconds gives one match, of    *)
(* Type "track" and Duration 2400.                                      *)
C20_FortyMinuteIsAroundForty ==
    call.op = "FindFortyMinuteContent"
        => /\ ret = FindContentAroundDuration(dvd, 40, 5)
           /\ \A i \in TrackPositions :
                Inside40(dvd.Tracks[i].Length)
                    => \A k \in DOMAIN ret :
                            ret[k].Track = i => ret[k].Type = "track"
           /\ (Len(dvd.Tracks) = 1 /\ dvd.Tracks[1].Length = 2400)
                => /\ Len(ret) = 1
                   /\ ret[1].Type = "track"
                   /\ ret[1].Duration = 2400

C20_Witness ==
    /\ call.op = "FindFortyMinuteContent"
    /\ dvd = FortyMinuteDisc
    /\ Len(ret) = 1
    /\ ret[1].Type = "track"
    /\ ret[1].Duration = 2400

----------------------------------------------------------------------------
(* Properties of ParseBytes and ParseFile, under SpecParse *)

(* the bytes the call was given: those of the caller, or those of the file *)
Input == IF call.op = "ParseFile" THEN call.file.data ELSE call.data

(* the call reached xml.Unmarshal *)
Decoding == call.op \in {"ParseBytes", "ParseFile"} /\ ret.unmarshals = 1

(* the document is an undamaged lsdvd whose first track has the df chars *)
HoldsDF(src, chars) ==
    /\ src.kind = "document"
    /\ src.root = "lsdvd"
    /\ src.damage = "none"
    /\ src.tracks # <<>>
    /\ src.tracks[1].df = <<chars>>

PanScanChars == <<"P", "a", "n", "&", "S", "c", "a", "n">>

(* C11: ParseBytes on a document whose df tag reads Pan&Scan, the      *)
(* ampersand unescaped, succeeds, and the DF of the track is the text  *)
(* Pan&Scan.                                                           *)
C11_PanScanDecoded ==
    (call.op = "ParseBytes" /\ HoldsDF(call.source, PanScanChars))
        => /\ ret.err = <<>>
           /\ ret.dvd # <<>>
           /\ ret.dvd[1].Tracks[1].DF = "Pan&Scan"

C11_Witness ==
    /\ call.op = "ParseBytes"
    /\ HoldsDF(call.source, PanScanChars)
    /\ ret.dvd # <<>>
    /\ ret.dvd[1].Tracks[1].DF = "Pan&Scan"
    /\ ret.text # call.data

(* the positions where old occurs in s *)
Occurrences(s, old) == {i \in DOMAIN s : HasPrefixAt(s, i, old)}

(* the positions of the ampersands of the occurrences of the two patterns *)
PatternAmpersands(s) ==
    {i + 3 : i \in Occurrences(s, PanScan)} \cup Occurrences(s, Letterbox)

(* s with amp; put after each of the positions A *)
EscapedAt(s, A) ==
    Flatten([k \in DOMAIN s |->
                IF k \in A THEN <<s[k]>> \o Text(<<"a", "m", "p", ";">>) ELSE <<s[k]>>])

(* C12: the text handed to the decoder has no occurrence of Pan&Scan and *)
(* none of &Letterbox left, and it is the input with the ampersand of    *)
(* each such occurrence escaped and nothing else changed.                *)
C12_RepairRewritesEveryOccurrence ==
    Decoding
        => /\ Occurrences(ret.text, PanScan) = {}
           /\ Occurrences(ret.text, Letterbox) = {}
           /\ ret.text = EscapedAt(Input, PatternAmpersands(Input))

C12_Witness ==
    /\ Decoding
    /\ Cardinality(Occurrences(Input, PanScan)) = 2
    /\ Occurrences(Input, Letterbox) # {}
    /\ Len(ret.text) = Len(Input) + 12
    /\ Occurrences(ret.text, PanAmpScan) # {}

(* C13: the two substitutions commute: the text handed to the decoder is *)
(* also the one the substitutions give in the other order.               *)
C13_SubstitutionsCommute ==
    Decoding => ret.text = RepairPanScan(RepairLetterbox(Input))

C13_Witness ==
    /\ Decoding
    /\ Occurrences(Input, PanScan) # {}
    /\ Occurrences(Input, Letterbox) # {}
    /\ Occurrences(ret.text, PanAmpScan) # {}
    /\ Occurrences(ret.text, AmpLetterbox) # {}

(* s from position i on is the rest of a well-formed document: stack holds *)
(* the elements open at i, roots counts the root elements begun before i;  *)
(* a run of characters is looked at as a whole                             *)
RECURSIVE WellFormedFrom(_, _, _, _)
WellFormedFrom(s, i, stack, roots) ==
    IF i > Len(s) THEN stack = <<>> /\ roots = 1
    ELSE CASE s[i][1] = "s" ->
                /\ stack # <<>> \/ roots = 0
                /\ WellFormedFrom(s, i + 1, <<s[i][2]>> \o stack,
                                  IF stack = <<>> THEN roots + 1 ELSE roots)
           [] s[i][1] = "e" ->
                /\ stack # <<>>
                /\ Head(stack) = s[i][2]
                /\ WellFormedFrom(s, i + 1, Tail(stack), roots)
           [] s[i][1] = "c" ->
                LET next == CHOOSE j \in (i + 1)..(Len(s) + 1) :
                                /\ j <= Len(s) => s[j][1] # "c"
                                /\ \A k \in i..(j - 1) : s[k][1] = "c"
                IN  /\ \A k \in i..(next - 1) :
                        /\ stack # <<>> \/ IsSpace(s[k][2])
                        /\ s[k][2] = "&" => EntitiesAt(s, k) # {}
                    /\ WellFormedFrom(s, next, stack, roots)
           [] s[i] = CDataStart ->
                /\ stack # <<>>
                /\ \E j \in (i + 1)..Len(s) : s[j] = CDataEnd
                /\ LET end == CHOOSE j \in (i + 1)..Len(s) :
                                s[j] = CDataEnd /\ \A k \in (i + 1)..(j - 1) : s[k] # CDataEnd
                   IN  WellFormedFrom(s, end + 1, stack, roots)
           [] s[i] = CDataEnd -> FALSE

(* well-formed markup: one root element, every element closed by its own  *)
(* end tag, no text outside the root, every ampersand an entity reference *)
WellFormed(s) == WellFormedFrom(s, 1, <<>>, 0)

(* the first start tag of s is the root lsdvd *)
HasRoot(s) ==
    /\ \E i \in DOMAIN s : s[i][1] = "s"
    /\ LET first == CHOOSE i \in DOMAIN s :
                        s[i][1] = "s" /\ \A k \in 1..(i - 1) : s[k][1] # "s"
       IN  s[first][2] = XMLName

(* C14: when the repaired text is not well-formed markup or has no lsdvd *)
(* root, ParseBytes returns an error and a nil DVD; it never returns a   *)
(* DVD together with an error.                                           *)
C14_Original_MalformedIsRejected ==
    (call.op = "ParseBytes")
        => /\ (~WellFormed(ret.text) \/ ~HasRoot(ret.text))
                => (ret.err # <<>> /\ ret.dvd = <<>>)
           /\ ~(ret.dvd # <<>> /\ ret.err # <<>>)

(* the failing input of C14: the closed root followed by a stray end tag, *)
(* decoded as if the document ended with the root                         *)
C14_TrailingAccepted ==
    /\ call.op = "ParseBytes"
    /\ call.source.kind = "document"
    /\ call.source.damage = "trailing"
    /\ ~WellFormed(ret.text)
    /\ ret.err = <<>>
    /\ ret.dvd # <<>>

(* the sequence part ends the sequence whole *)
IsSuffix(part, whole) ==
    /\ Len(part) <= Len(whole)
    /\ SubSeq(whole, Len(whole) - Len(part) + 1, Len(whole)) = part

(* the error names the file *)
NamesFile(err) == \E k \in DOMAIN err : err[k] = FileName

(* the error of the step that failed: of the read, or of the decoder *)
UnderlyingCause ==
    IF call.file.err # <<>> THEN call.file.err ELSE Unmarshal(ret.text).err

(* C15: every error ParseFile returns, for an unreadable file or for *)
(* malformed markup, carries the file name and the underlying cause. *)
C15_Original_ErrorNamesFileAndCause ==
    (call.op = "ParseFile" /\ ret.err # <<>>)
        => /\ NamesFile(ret.err)
           /\ UnderlyingCause # <<>>
           /\ IsSuffix(UnderlyingCause, ret.err)

(* the failing input of C15: a readable file of malformed markup, whose *)
(* error carries the decoder's cause and no file name                   *)
C15_ParseErrorWithoutName ==
    /\ call.op = "ParseFile"
    /\ call.file.err = <<>>
    /\ ret.err # <<>>
    /\ IsSuffix(Unmarshal(ret.text).err, ret.err)
    /\ ~NamesFile(ret.err)

(* the tags of the disc, and of a track, that the source writes *)
TagsOfDisc(src) ==
    (IF src.device # <<>> THEN {"device"} ELSE {})
    \cup (IF src.tracks # <<>> THEN {"track"} ELSE {})
    \cup (IF src.longest # <<>> THEN {"longest_track"} ELSE {})

TagsOfTrack(t) ==
    (IF t.ix # <<>> THEN {"ix"} ELSE {})
    \cup (IF t.length # <<>> THEN {"length"} ELSE {})
    \cup (IF t.df # <<>> THEN {"df"} ELSE {})
    \cup (IF t.colors # <<>> THEN {"palette"} ELSE {})
    \cup (IF t.audio # <<>> THEN {"audio"} ELSE {})
    \cup (IF t.subp # <<>> THEN {"subp"} ELSE {})
    \cup (IF t.chapters # <<>> THEN {"chapter"} ELSE {})
    \cup (IF t.cells # <<>> THEN {"cell"} ELSE {})

(* every field of val whose tag is not among present holds the zero value *)
(* of its kind: the empty string, 0, or the empty sequence                *)
AbsentIsZero(val, type, present) ==
    \A k \in DOMAIN FieldsOf(type) :
        LET f == FieldsOf(type)[k]
        IN  f.tag \notin present =>
                CASE f.kind = "string" -> val[f.name] = ""
                  [] f.kind \in {"int", "float64"} -> val[f.name] = 0
                  [] f.kind \in {"[]string", "[]struct"} -> val[f.name] = <<>>
                  [] f.kind = "struct" -> val[f.name].Colors = <<>>

(* the elements of a repeated tag hold an ix tag and no other *)
ChildrenZero(ts, type) == \A k \in DOMAIN ts : AbsentIsZero(ts[k], type, {"ix"})

(* every ix tag of the tracks holds a numeral *)
NumeralsValid(src) == \A k \in DOMAIN src.tracks : src.tracks[k].ix # <<BadNumeral>>

(* the decoded disc has zero values where the source writes no tag, and *)
(* is the disc of the same source without its unknown tags              *)
DecodedDespiteAbsence(src) ==
    /\ ret.err = <<>>
    /\ ret.dvd # <<>>
    /\ AbsentIsZero(ret.dvd[1], "DVD", TagsOfDisc(src))
    /\ Len(ret.dvd[1].Tracks) = Len(src.tracks)
    /\ \A k \in DOMAIN src.tracks :
        LET t == ret.dvd[1].Tracks[k]
        IN  /\ AbsentIsZero(t, "Track", TagsOfTrack(src.tracks[k]))
            /\ ChildrenZero(t.AudioStreams, "AudioStream")
            /\ ChildrenZero(t.SubtitleStreams, "SubtitleStream")
            /\ ChildrenZero(t.Chapters, "Chapter")
            /\ ChildrenZero(t.Cells, "Cell")
    /\ ret.dvd = ParseBytes(Document([src EXCEPT !.unknown = FALSE])).dvd

(* the call decoded a well-formed document of root lsdvd *)
ParsedWellFormed ==
    /\ call.op = "ParseBytes"
    /\ call.source.kind = "document"
    /\ WellFormed(ret.text)
    /\ HasRoot(ret.text)

Written(text) ==
    CASE text = <<"1">> -> [number |-> 1, string |-> "1"]
      [] text = <<"2">> -> [number |-> 2, string |-> "2"]
      [] text = <<"0", "7">> -> [number |-> 7, string |-> "07"]

(* the elements decoded have the indices written, one each, in their order *)
IndicesAsWritten(elems, ixs) ==
    /\ Len(elems) = Len(ixs)
    /\ \A k \in DOMAIN ixs : elems[k].Index = Written(ixs[k]).number

(* C17: every sequence of the decoded disc has one element for each  *)
(* element of the input, in the order of the document, and the Index *)
(* of each is the value written: not renumbered, and accepted when   *)
(* repeated or not contiguous.                                       *)
C17_SequencesMirrorDocument ==
    (ParsedWellFormed /\ NumeralsValid(call.source))
        => /\ ret.err = <<>>
           /\ ret.dvd # <<>>
           /\ Len(ret.dvd[1].Tracks) = Len(call.source.tracks)
           /\ \A k \in DOMAIN call.source.tracks :
                LET src == call.source.tracks[k]
                    t == ret.dvd[1].Tracks[k]
                IN  /\ src.ix # <<>> => t.Index = Written(src.ix[1]).number
                    /\ IndicesAsWritten(t.AudioStreams, src.audio)
                    /\ IndicesAsWritten(t.SubtitleStreams, src.subp)
                    /\ IndicesAsWritten(t.Chapters, src.chapters)
                    /\ IndicesAsWritten(t.Cells, src.cells)
                    /\ t.Palette.Colors =
                            [j \in DOMAIN src.colors |-> Written(src.colors[j]).string]

C17_Witness ==
    /\ ParsedWellFormed
    /\ ret.dvd # <<>>
    /\ Len(ret.dvd[1].Tracks) = 1
    /\ call.source.tracks[1].chapters = << <<"0", "7">>, <<"1">> >>
    /\ ret.dvd[1].Tracks[1].Chapters[1].Index = 7
    /\ ret.dvd[1].Tracks[1].Chapters[2].Index = 1
    /\ ret.dvd[1].Tracks[1].Cells[1].Index = 7
    /\ ret.dvd[1].Tracks[1].Palette.Colors = <<"07", "1">>
    /\ Len(ret.dvd[1].Tracks[1].AudioStreams) = 1

(* the characters a text of the input stands for: its entity references *)
(* resolved                                                             *)
ScalarOf(chars) == ReplaceAll(chars, <<"&", "a", "m", "p", ";">>, <<"&">>)

(* the string of the characters, written out piece by piece *)
RECURSIVE StringOf(_)
StringOf(chars) ==
    IF chars = <<>> THEN ""
    ELSE IF HasPrefixAt(chars, 1, <<"P", "a", "n">>)
         THEN "Pan" \o StringOf(SubSeq(chars, 4, Len(chars)))
    ELSE IF HasPrefixAt(chars, 1, <<"S", "c", "a", "n">>)
         THEN "Scan" \o StringOf(SubSeq(chars, 5, Len(chars)))
    ELSE IF HasPrefixAt(chars, 1, <<"L", "e", "t", "t", "e", "r", "b", "o", "x">>)
         THEN "Letterbox" \o StringOf(SubSeq(chars, 10, Len(chars)))
    ELSE IF HasPrefixAt(chars, 1, <<"a", "m", "p", ";">>)
         THEN "amp;" \o StringOf(SubSeq(chars, 5, Len(chars)))
    ELSE IF Head(chars) = "&" THEN "&" \o StringOf(Tail(chars))
    ELSE "?" \o StringOf(Tail(chars))

(* the input is valid: well-formed as given, of root lsdvd, its numeric *)
(* tags holding numerals                                                *)
ValidInput ==
    /\ call.op = "ParseBytes"
    /\ call.source.kind \in {"document", "cdata"}
    /\ WellFormed(call.data)
    /\ HasRoot(call.data)
    /\ call.source.kind = "document" => NumeralsValid(call.source)

(* the stored scalars of the first track are those the source writes *)
TrackScalarsReproduced(t, src) ==
    /\ src.ix # <<>> => t.Index = Written(src.ix[1]).number
    /\ src.length # <<>> => (src.length = <<LengthText>> /\ t.Length = 2700)
    /\ src.df # <<>> => t.DF = StringOf(ScalarOf(src.df[1]))

(* C18: for every valid input the stored fields, taken as text again, *)
(* are the scalars of the input: the device, the index and length of  *)
(* each track, its df, whether written as text or as a CDATA section. *)
C18_Original_StoredValuesRoundTrip ==
    ValidInput
        => /\ ret.err = <<>>
           /\ ret.dvd # <<>>
           /\ IF call.source.kind = "cdata"
              THEN /\ Len(ret.dvd[1].Tracks) = 1
                   /\ ret.dvd[1].Tracks[1].Index = 1
                   /\ ret.dvd[1].Tracks[1].DF = StringOf(call.source.text)
              ELSE /\ call.source.device # <<>> => ret.dvd[1].Device = "./test"
                   /\ call.source.longest # <<>> => ret.dvd[1].LongestTrack = 1
                   /\ Len(ret.dvd[1].Tracks) = Len(call.source.tracks)
                   /\ \A k \in DOMAIN call.source.tracks :
                        TrackScalarsReproduced(ret.dvd[1].Tracks[k], call.source.tracks[k])

(* the failing input of C18: Pan&Scan in a CDATA section, stored with the *)
(* ampersand escaped                                                      *)
C18_CDataRewritten ==
    /\ ValidInput
    /\ call.source.kind = "cdata"
    /\ call.source.text = PanScanChars
    /\ ret.err = <<>>
    /\ ret.dvd # <<>>
    /\ ret.dvd[1].Tracks[1].DF = "Pan&amp;Scan"

(* C19: ParseFile is the read followed by ParseBytes: of a file that can *)
(* be read it returns what ParseBytes returns on the contents, DVD or    *)
(* error; of a file that cannot be read it returns a nil DVD and an      *)
(* error, and nothing is decoded.                                        *)
C19_ParseFileDelegates ==
    call.op = "ParseFile"
        => IF call.file.err = <<>>
           THEN /\ ret.dvd = ParseBytes(call.file.data).dvd
                /\ ret.err = ParseBytes(call.file.data).err
                /\ ret.unmarshals = 1
           ELSE /\ ret.dvd = <<>>
                /\ ret.err # <<>>
                /\ ret.unmarshals = 0

C19_Witness ==
    /\ call.op = "ParseFile"
    /\ call.file.err # <<>>
    /\ call.source.kind = "document"
    /\ ParseBytes(call.data).dvd # <<>>
    /\ ret.dvd = <<>>
    /\ ret.err # <<>>
    /\ ret.unmarshals = 0

----------------------------------------------------------------------------
(* Properties of FindContentAroundDuration, under SpecWindow *)

(* targetMinutes*60 as the call computes it *)
TargetSeconds == Float64(call.targetMinutes * 60)

TrackMatched(i) == \E k \in DOMAIN ret : ret[k].Type = "track" /\ ret[k].Track = i

ChapterMatched(i, j) ==
    \E k \in DOMAIN ret :
        ret[k].Type = "chapter" /\ ret[k].Track = i /\ ret[k].Chapter = j

(* C21: with a tolerance of 0 a track or chapter is matched only when its *)
(* Length is exactly targetMinutes*60; a length that differs from it by   *)
(* any amount is not matched.                                             *)
C21_ZeroToleranceIsEquality ==
    (IsFind /\ call.toleranceMinutes = 0)
        => /\ \A k \in DOMAIN ret : ret[k].Duration = TargetSeconds
           /\ \A i \in TrackPositions :
                /\ TrackMatched(i) <=> dvd.Tracks[i].Length = TargetSeconds
                /\ \A j \in ChapterPositions(i) :
                    ChapterMatched(i, j)
                        <=> /\ dvd.Tracks[i].Length # TargetSeconds
                            /\ dvd.Tracks[i].Chapters[j].Length = TargetSeconds

C21_Witness ==
    /\ IsFind
    /\ call.toleranceMinutes = 0
    /\ call.targetMinutes = 40
    /\ Len(dvd.Tracks) = 2
    /\ dvd.Tracks[1].Length = 2400
    /\ dvd.Tracks[2].Length = 2700
    /\ dvd.Tracks[2].Chapters # <<>>
    /\ dvd.Tracks[2].Chapters[1].Length = 2400
    /\ Len(ret) = 2
    /\ ret[1].Type = "track"
    /\ ret[2].Type = "chapter"

(* C22: with a tolerance below zero no disc and no target has a match. *)
C22_Original_NegativeToleranceNoMatch ==
    (IsFind /\ call.toleranceMinutes < 0) => ret = <<>>

(* the failing input of C22: the seconds of the tolerance are lost in the *)
(* rounding of both ends of the window, which is the target alone         *)
C22_NegativeToleranceAbsorbed ==
    /\ IsFind
    /\ call.toleranceMinutes < 0
    /\ Float64(TargetSeconds - Float64(call.toleranceMinutes * 60)) = TargetSeconds
    /\ Float64(TargetSeconds + Float64(call.toleranceMinutes * 60)) = TargetSeconds
    /\ ret # <<>>
    /\ ret[1].Duration = TargetSeconds

----------------------------------------------------------------------------
(* Properties of the command-line program, under SpecCLI *)

(* the files whose turn of the loop is over *)
Done == 1..(call.i - 1)

Failing(k) == call.files[k] \in {"malformed", "unreadable"}

CommandMode == call.flags.episodes > 0 /\ call.flags.ffmpeg

(* what is printed before the loop *)
Heading == IF CommandMode THEN <<>> ELSE <<Line("count", <<Len(call.files)>>)>>

(* what the program prints for the k-th file when it is the only one *)
Alone(k) ==
    Body(call.flags, XMLFile(k), ParseFile(XMLFile(k), Contents(call.files[k])))

(* C23: in a batch each file is decoded once, in the order of the list; a *)
(* file whose decode fails is reported by one line and skipped, and the   *)
(* loop goes on: the output is, file by file, what each file gives alone. *)
C23_BatchSurvivesFailures ==
    call.i >= 1
        => /\ call.parsed = [k \in Done |-> XMLFile(k)]
           /\ call.i <= Len(call.files) => call.op = "main"
           /\ ret = Heading \o Flatten([k \in Done |-> Alone(k)])
           /\ \A k \in Done :
                IF Failing(k)
                THEN Len(Alone(k)) = 1 /\ Alone(k)[1].kind = "error"
                ELSE \A n \in DOMAIN Alone(k) : Alone(k)[n].kind # "error"

C23_Witness ==
    /\ call.op = "main"
    /\ call.files = <<"malformed", "episodes", "unreadable">>
    /\ call.i = 4
    /\ ~CommandMode
    /\ call.flags.episodes = 0
    /\ Len(call.parsed) = 3
    /\ ret[2].kind = "error"
    /\ ret[3].kind = "summary"
    /\ ret[Len(ret)].kind = "error"

(* the commands for the track matches of the k-th file, in match order; *)
(* none when the file cannot be decoded                                 *)
TrackCommands(k) ==
    LET r == ParseFile(XMLFile(k), Contents(call.files[k]))
        d == r.dvd[1]
        base == Base(XMLFile(k))
        matches == FindContentAroundDuration(d, call.flags.episodes, call.flags.tolerance)
        IsTrack(m) == m.Type = "track"
        tracks == SelectSeq(matches, IsTrack)
    IN  IF r.err # <<>> THEN <<>>
        ELSE [n \in DOMAIN tracks |->
                Line("command",
                     generateFFmpegCommand(d, tracks[n], extractDVDPath(Bytes(d.Device)),
                                           SubSeq(base, 1, Len(base) - 4) \o <<"_">>
                                           \o <<"e", "p", "i", "s", "o", "d", "e", "s">>))]

(* C26: with -episodes > 0 and -ffmpeg the output holds nothing but the *)
(* commands of the track matches, file by file and in match order.      *)
C26_Original_OnlyCommands ==
    CommandMode
        => /\ \A n \in DOMAIN ret : ret[n].kind = "command"
           /\ call.i >= 1 => ret = Flatten([k \in Done |-> TrackCommands(k)])

(* what the code does: the line of a failed decode between the commands *)
C26_ErrorLineAmongCommands ==
    /\ CommandMode
    /\ call.files = <<"episodes", "malformed", "episodes">>
    /\ call.i = 4
    /\ Len(ret) = 3
    /\ <<ret[1]>> = TrackCommands(1)
    /\ ret[2].kind = "error"
    /\ <<ret[3]>> = TrackCommands(3)
    /\ \E m \in Range(FindContentAroundDuration(dvd[1], 40, 5)) : m.Type = "chapter"

----------------------------------------------------------------------------
(* Properties of the two lookups together, under Spec *)

IndexIsPosition == \A i \in TrackPositions : dvd.Tracks[i].Index = i

(* C28: on a disc whose tracks carry their 1-based position as Index, a *)
(* track returned by GetLongestTrack has the declared LongestTrack as   *)
(* its Index and is the track GetTrackByIndex(LongestTrack) returns.    *)
C28_LongestTrackAgreesWithLookup ==
    (call.op = "GetLongestTrack" /\ IndexIsPosition /\ ret # Nil)
        => /\ ret \in TrackPositions
           /\ dvd.Tracks[ret].Index = dvd.LongestTrack
           /\ GetTrackByIndex(dvd, dvd.LongestTrack) = ret

C28_Witness ==
    /\ call.op = "GetLongestTrack"
    /\ IndexIsPosition
    /\ Len(dvd.Tracks) = 2
    /\ dvd.LongestTrack = 2
    /\ ret = 2
    /\ GetTrackByIndex(dvd, 2) = 2

----------------------------------------------------------------------------
(* Properties of concurrent calls, under SpecConcurrent *)

Calls == DOMAIN call.procs

Returned(p) == call.procs[p].pc = "done"

(* what call p returns when it runs alone on the bytes it was given at *)
(* the start                                                           *)
AloneOn(p) == ParseBytes(call.procs[p].given)

(* C24: whatever the interleaving of the calls, each call returns the    *)
(* DVD or the error it returns alone on its input, and the DVDs returned *)
(* by different calls are different values in memory.                    *)
C24_CallsShareNoState ==
    /\ \A p \in Calls :
        Returned(p) =>
            /\ ret[p].err = AloneOn(p).err
            /\ (ret[p].dvd = <<>>) <=> (AloneOn(p).dvd = <<>>)
            /\ ret[p].dvd # <<>> => dvd.dvds[ret[p].dvd[1]] = AloneOn(p).dvd[1]
    /\ \A p, q \in Calls :
        (p # q /\ Returned(p) /\ Returned(q) /\ ret[p].dvd # <<>> /\ ret[q].dvd # <<>>)
            => ret[p].dvd[1] # ret[q].dvd[1]

C24_Witness ==
    /\ \A p \in Calls : Returned(p)
    /\ call.procs[1].arg = call.procs[2].arg
    /\ ret[1].dvd # <<>>
    /\ ret[2].dvd # <<>>
    /\ ret[1].dvd # ret[2].dvd
    /\ dvd.dvds[ret[1].dvd[1]] = dvd.dvds[ret[2].dvd[1]]
    /\ dvd.dvds[ret[1].dvd[1]].Tracks[1].DF = "Pan&Scan"

(* C29: at every statement of every call, failed or not, the slice of the *)
(* caller holds the bytes it held when the call started; the repaired     *)
(* text is in another slice.                                              *)
C29_InputUnchanged ==
    \A p \in Calls :
        /\ dvd.bufs[call.procs[p].arg] = call.procs[p].given
        /\ Returned(p) /\ ret[p].text # call.procs[p].given
            => call.procs[p].data # call.procs[p].arg

C29_Witness ==
    /\ Returned(1)
    /\ Returned(2)
    /\ ret[1].err = <<>>
    /\ ret[1].text # call.procs[1].given
    /\ dvd.bufs[call.procs[1].arg] = call.procs[1].given
    /\ ret[2].err # <<>>
    /\ dvd.bufs[call.procs[2].arg] = call.procs[2].given

----------------------------------------------------------------------------
(* Properties of the command line tools, under SpecCommand *)

Contains(s, chars) == Occurrences(s, chars) # {}

HasSuffix(s, chars) ==
    Len(s) >= Len(chars) /\ SubSeq(s, Len(s) - Len(chars) + 1, Len(s)) = chars

Generated == call.op = "generateFFmpegCommand"

(* the parts of the command that the code does produce *)
CopiesToMkv ==
    /\ Contains(ret, <<"f", "f", "m", "p", "e", "g">>)
    /\ Contains(ret, <<"-", "c", " ", "c", "o", "p", "y">>)
    /\ HasSuffix(ret, <<".", "m", "k", "v", "\"">>)

DvdvideoColon == <<"d", "v", "d", "v", "i", "d", "e", "o", ":">>

(* C25: the command generated for a match of FindContentAroundDuration *)
(* contains "ffmpeg", "dvdvideo:" and "-c copy", and names an output   *)
(* file ending in ".mkv".                                              *)
C25_Original_CommandHasDvdvideoColon ==
    Generated => CopiesToMkv /\ Contains(ret, DvdvideoColon)

(* what the code does: a chapter command with every part but "dvdvideo:" *)
C25_CommandWithoutDvdvideoColon ==
    /\ Generated
    /\ call.match[1].Type = "chapter"
    /\ CopiesToMkv
    /\ Contains(ret, <<"-", "f", " ", "d", "v", "d", "v", "i", "d", "e", "o", " ", "-", "i", " ", "'">>)
    /\ ~Contains(ret, DvdvideoColon)

DotSlash == <<".", "/">>

(* C27: extractDVDPath returns a device that starts with "./" without *)
(* these two characters, whatever follows them, and any other device  *)
(* as it is.                                                          *)
C27_OneLeadingDotSlashRemoved ==
    call.op = "extractDVDPath"
        => IF HasPrefixAt(call.device, 1, DotSlash)
           THEN call.device = DotSlash \o ret
           ELSE ret = call.device

C27_Witness ==
    /\ call.op = "extractDVDPath"
    /\ call.device = DotSlash \o DotSlash
    /\ ret = DotSlash

----------------------------------------------------------------------------
(* Properties of the repair applied again, under SpecParse *)

AmpAmp == Text(<<"&", "a", "m", "p", ";", "a", "m", "p", ";">>)

(* C30: the two substitutions applied to the repaired text change       *)
(* nothing; a text without the unescaped patterns reaches the decoder   *)
(* as it came, and the repair never turns an escape into "&amp;amp;".   *)
C30_RepairIdempotent ==
    Decoding
        => /\ RepairLetterbox(RepairPanScan(ret.text)) = ret.text
           /\ (Occurrences(Input, PanScan) = {} /\ Occurrences(Input, Letterbox) = {})
                => ret.text = Input
           /\ Occurrences(ret.text, AmpAmp) = {}

(* an escaped Pan&amp;Scan is decoded as it came *)
C30_Witness ==
    /\ call.op = "ParseBytes"
    /\ Occurrences(Input, PanAmpScan) # {}
    /\ ret.text = Input
    /\ ret.dvd # <<>>
    /\ ret.dvd[1].Tracks # <<>>
    /\ ret.dvd[1].Tracks[1].DF = "Pan&Scan"
====
